---- MODULE Spec2Model ----
(***************************************************************************)
(* A model of vi-mind: the key-sequence engine (input/keyHandler), the     *)
(* command registry (input/commands), the mind-map mutation service        *)
(* (services/mindMapService) over the in-memory repository                 *)
(* (storage/repository) and the node store (stores/nodeStore) with the     *)
(* navigation callbacks of ui/hooks/useKeyboardShortcuts.                  *)
(*                                                                         *)
(* Key names and key buffers are sequences of one-character strings, so    *)
(* that `keyBuffer += key` is the concatenation the code performs.         *)
(***************************************************************************)
EXTENDS Integers, Sequences, FiniteSets, TLC

VARIABLES
  commands,        \* the registry handed to createKeyHandler
  isMac,           \* navigator.platform contains "MAC"
  keyBuffer,       \* keyHandler: keyBuffer
  timeoutId,       \* keyHandler: timeoutId (NULL or the id of the armed timer)
  timers,          \* the timers scheduled with setTimeout and not yet fired or cleared
  context,         \* the CommandContext handed to handleKeyDown
  metaHeld,        \* the Meta key is down (event.metaKey)
  ctrlHeld,        \* the Control key is down (event.ctrlKey)
  focus,           \* the element that has the focus (event.target)
  lastOp,          \* which operation made the last step
  lastEvent,       \* the KeyboardEvent of the last handleKeyDown call
  handled,         \* the value that call returned
  executed,        \* the ids of the commands whose execute ran in that call
  calls,           \* the context functions the chords of that call invoked
  raised,          \* that call ended in an exception instead of a return
  repo,            \* repository: the Map of nodes, in insertion order
  nextId,          \* the next identifier generateId returns
  lastCall,        \* the last service or store call: its name and arguments
  callResult,      \* what that call returned
  storeNodes,      \* nodeStore: nodes (the snapshot of the last refresh)
  selectedNodeId,  \* nodeStore: selectedNodeId
  serviceSet,      \* nodeStore: service is not null
  currentMode,     \* modeManager: currentMode
  listeners,       \* modeManager: listeners, a Set in insertion order
  handles,         \* the handlers whose unsubscribe handle has been returned
  modeCall,        \* the last modeManager call: its name and its handler
  notified,        \* the handler calls that call made, in order
  keyEvents,       \* event loop: the key events dispatched so far
  effects,         \* event loop: the store call each key event made
  inFlight,        \* event loop: the store calls that have not returned
  jobs,            \* event loop: the microtask queue
  tasks,           \* event loop: the task queue
  lastAccess,      \* event loop: the last repository or store access
  uiMode,          \* uiStore: mode
  storedItem,      \* localStorage: the item under STORAGE_KEY
  lsNodes,         \* persistent repository: its nodes Map
  lsCall,          \* persistent repository: the last call and how it ended
  layoutNodes,     \* MindMapCanvas: the nodes handed to calculateLayout
  layout,          \* MindMapCanvas: the node boxes calculateLayout returned
  isCommandPaletteOpen, \* uiStore: isCommandPaletteOpen
  query,           \* CommandPalette: query
  selectedIndex,   \* CommandPalette: selectedIndex, counted from 0
  paletteSteps     \* CommandPalette: what the last handleSelect call did, in order

engineVars == <<commands, isMac, keyBuffer, timeoutId, timers, context,
                metaHeld, ctrlHeld, focus,
                lastOp, lastEvent, handled, executed, calls, raised>>
serviceVars == <<repo, nextId, lastCall, callResult>>
storeVars == <<storeNodes, selectedNodeId, serviceSet>>
vars == <<commands, isMac, keyBuffer, timeoutId, timers, context,
          metaHeld, ctrlHeld, focus, lastOp, lastEvent, handled, executed, calls,
          raised,
          repo, nextId, lastCall, callResult,
          storeNodes, selectedNodeId, serviceSet,
          currentMode, listeners, handles, modeCall, notified,
          keyEvents, effects, inFlight, jobs, tasks, lastAccess, uiMode,
          storedItem, lsNodes, lsCall,
          layoutNodes, layout,
          isCommandPaletteOpen, query, selectedIndex, paletteSteps>>
lsVars == <<storedItem, lsNodes, lsCall>>
layoutVars == <<layoutNodes, layout>>
paletteVars == <<isCommandPaletteOpen, query, selectedIndex, paletteSteps>>
modeVars == <<currentMode, listeners, handles, modeCall, notified>>
loopVars == <<keyEvents, effects, inFlight, jobs, tasks, lastAccess>>
notEngineVars == <<serviceVars, storeVars, modeVars, loopVars, uiMode,
  lsVars, layoutVars, paletteVars>>
notServiceVars == <<engineVars, storeVars, modeVars, loopVars, uiMode,
  lsVars, layoutVars, paletteVars>>
notStoreVars == <<engineVars, modeVars, loopVars, uiMode,
  lsVars, layoutVars, paletteVars>>
notModeVars == <<engineVars, serviceVars, storeVars, loopVars, uiMode,
  lsVars, layoutVars, paletteVars>>
notLoopVars == <<engineVars, serviceVars, storeVars, modeVars, uiMode,
  lsVars, layoutVars, paletteVars>>

\* null: no node id, no timer id, no command
NULL == 0

(***************************************************************************)
(* Key names                                                               *)
(***************************************************************************)
Escape == <<"E", "s", "c", "a", "p", "e">>
ArrowLeft == <<"A", "r", "r", "o", "w", "L", "e", "f", "t">>
ArrowRight == <<"A", "r", "r", "o", "w", "R", "i", "g", "h", "t">>
ArrowDown == <<"A", "r", "r", "o", "w", "D", "o", "w", "n">>
ArrowUp == <<"A", "r", "r", "o", "w", "U", "p">>

Modes == {"normal", "insert"}

(***************************************************************************)
(* The command registry of createCommands.  guard names the canExecute of  *)
(* the command: "none" when it has none.                                   *)
(***************************************************************************)
DefaultCommands ==
  << [id |-> "nav.parent", keybindings |-> <<(<<"h">>), ArrowLeft>>,
      modes |-> {"normal"}, guard |-> "selected"],
     [id |-> "nav.child", keybindings |-> <<(<<"l">>), ArrowRight>>,
      modes |-> {"normal"}, guard |-> "selected"],
     [id |-> "nav.nextSibling", keybindings |-> <<(<<"j">>), ArrowDown>>,
      modes |-> {"normal"}, guard |-> "selected"],
     [id |-> "nav.prevSibling", keybindings |-> <<(<<"k">>), ArrowUp>>,
      modes |-> {"normal"}, guard |-> "selected"],
     [id |-> "edit.createChild", keybindings |-> <<(<<"a">>)>>,
      modes |-> {"normal"}, guard |-> "none"],
     [id |-> "edit.createSiblingBelow", keybindings |-> <<(<<"o">>)>>,
      modes |-> {"normal"}, guard |-> "selectedNotRoot"],
     [id |-> "edit.createSiblingAbove", keybindings |-> <<(<<"O">>)>>,
      modes |-> {"normal"}, guard |-> "selectedNotRoot"],
     [id |-> "edit.delete", keybindings |-> <<(<<"d", "d">>)>>,
      modes |-> {"normal"}, guard |-> "selected"],
     [id |-> "edit.deleteWithChildren", keybindings |-> <<(<<"g", "d">>)>>,
      modes |-> {"normal"}, guard |-> "selected"],
     [id |-> "edit.enterInsert", keybindings |-> <<(<<"i">>)>>,
      modes |-> {"normal"}, guard |-> "selected"],
     [id |-> "edit.changeNode", keybindings |-> <<(<<"c", "i", "n">>)>>,
      modes |-> {"normal"}, guard |-> "selected"],
     [id |-> "mode.exitInsert", keybindings |-> <<Escape>>,
      modes |-> {"insert"}, guard |-> "none"],
     [id |-> "search.open", keybindings |-> <<(<<"/">>)>>,
      modes |-> {"normal"}, guard |-> "none"],
     [id |-> "command.openPalette", keybindings |-> <<(<<":">>)>>,
      modes |-> {"normal"}, guard |-> "none"],
     [id |-> "view.fitToView", keybindings |-> <<(<<"z", "z">>)>>,
      modes |-> {"normal"}, guard |-> "none"] >>

\* A registry as the tests of the key handler build them (one command per
\* binding, a canExecute on some): here a one-key binding that is the first
\* key of a two-key binding, and an Escape command with a canExecute.
LeaderCommands ==
  << [id |-> "leader", keybindings |-> <<(<<"g">>)>>,
      modes |-> {"normal"}, guard |-> "selected"],
     [id |-> "leader.top", keybindings |-> <<(<<"g", "g">>)>>,
      modes |-> {"normal"}, guard |-> "none"],
     [id |-> "delete", keybindings |-> <<(<<"d", "d">>)>>,
      modes |-> {"normal"}, guard |-> "never"],
     [id |-> "exit", keybindings |-> <<Escape>>,
      modes |-> {"normal", "insert"}, guard |-> "selected"] >>

Registries == {DefaultCommands, LeaderCommands}

\* (mutant: canExecute is not consulted)
CanExecuteMutant(cmd, ctx) == TRUE
\* cmd.canExecute is absent, or cmd.canExecute(ctx) is true
CanExecute(cmd, ctx) ==
  CASE cmd.guard = "none" -> TRUE
    [] cmd.guard = "selected" -> ctx.selectedNodeId # NULL
    [] cmd.guard = "selectedNotRoot" ->
         ctx.selectedNodeId # NULL /\ ~ctx.isSelectedNodeRoot
    [] cmd.guard = "never" -> FALSE

(***************************************************************************)
(* createKeyHandler                                                        *)
(***************************************************************************)
StartsWith(kb, keys) ==
  Len(keys) <= Len(kb) /\ SubSeq(kb, 1, Len(keys)) = keys

Includes(seq, x) == \E i \in 1..Len(seq) : seq[i] = x

\* (mutant: the command's modes are not consulted)
FindExactMatchMutant(cmds, keys, mode) ==
  LET hits == {i \in 1..Len(cmds) : Includes(cmds[i].keybindings, keys)}
  IN IF hits = {} THEN NULL ELSE CHOOSE i \in hits : \A j \in hits : i <= j
\* commands.find(...) ?? null: the index of the first match, NULL for none
FindExactMatch(cmds, keys, mode) ==
  LET hits == {i \in 1..Len(cmds) :
                 Includes(cmds[i].keybindings, keys) /\ mode \in cmds[i].modes}
  IN IF hits = {} THEN NULL ELSE CHOOSE i \in hits : \A j \in hits : i <= j

\* (mutant: commands that carry a canExecute are left out of the prefixes)
FindPrefixMatchesMutant(cmds, keys, mode) ==
  {i \in 1..Len(cmds) :
     /\ mode \in cmds[i].modes
     /\ cmds[i].guard = "none"
     /\ \E b \in 1..Len(cmds[i].keybindings) :
          /\ StartsWith(cmds[i].keybindings[b], keys)
          /\ cmds[i].keybindings[b] # keys}
\* commands.filter(...): the indices of the commands with a longer binding
FindPrefixMatches(cmds, keys, mode) ==
  {i \in 1..Len(cmds) :
     /\ mode \in cmds[i].modes
     /\ \E b \in 1..Len(cmds[i].keybindings) :
          /\ StartsWith(cmds[i].keybindings[b], keys)
          /\ cmds[i].keybindings[b] # keys}

\* (mutant: clearTimeout leaves the timer scheduled)
ClearTimeoutMutant(live, id) == live
\* clearTimeout(id): the timer is no longer scheduled
ClearTimeout(live, id) == live \ {id}

\* setTimeout returns an id no live timer has
NewTimerId(live) ==
  CHOOSE i \in 1..(Cardinality(live) + 1) :
    i \notin live /\ \A j \in 1..(i - 1) : j \in live

\* (mutant: the timer is cleared and the buffer kept)
ResetBufferMutant(s) ==
  [keyBuffer |-> s.keyBuffer, timeoutId |-> NULL,
   timers |-> IF s.timeoutId # NULL THEN ClearTimeout(s.timers, s.timeoutId)
              ELSE s.timers]
\* resetBuffer; s is the handler's closure state [keyBuffer, timeoutId, timers]
ResetBuffer(s) ==
  [keyBuffer |-> <<>>, timeoutId |-> NULL,
   timers |-> IF s.timeoutId # NULL THEN ClearTimeout(s.timers, s.timeoutId)
              ELSE s.timers]

\* (mutant: a textarea is not recognised)
IsTextTargetMutant(ev) == ev.target = "input"
\* event.target instanceof HTMLInputElement || ... HTMLTextAreaElement
IsTextTarget(ev) == ev.target \in {"input", "textarea"}

\* (mutant: the pan chords are tested before the palette chord)
ChordCallPanFirstMutant(ev, ctx, mac) ==
  LET key == ev.key
      modKey == IF mac THEN ev.metaKey ELSE ev.ctrlKey
  IN CASE ev.ctrlKey /\ ctx.mode = "normal" /\ key = <<"h">> -> "panCanvas:left"
       [] ev.ctrlKey /\ ctx.mode = "normal" /\ key = <<"j">> -> "panCanvas:down"
       [] ev.ctrlKey /\ ctx.mode = "normal" /\ key = <<"k">> -> "panCanvas:up"
       [] ev.ctrlKey /\ ctx.mode = "normal" /\ key = <<"l">> -> "panCanvas:right"
       [] (ev.metaKey \/ ev.ctrlKey) /\ key = <<"k">> -> "openCommandPalette"
       [] (ev.metaKey \/ ev.ctrlKey) /\ key = <<"c">> /\ ctx.mode = "normal" ->
            "copyNodeContent"
       [] modKey /\ (key = <<"=">> \/ key = <<"+">>) -> "zoomCanvas:in"
       [] modKey /\ key = <<"-">> -> "zoomCanvas:out"
       [] ev.ctrlKey /\ key = <<"0">> -> "fitToView"
       [] OTHER -> "none"

\* (mutant: the copy chord is matched in every mode)
ChordCallMutant(ev, ctx, mac) ==
  LET key == ev.key
      modKey == IF mac THEN ev.metaKey ELSE ev.ctrlKey
  IN CASE (ev.metaKey \/ ev.ctrlKey) /\ key = <<"k">> -> "openCommandPalette"
       [] (ev.metaKey \/ ev.ctrlKey) /\ key = <<"c">> -> "copyNodeContent"
       [] modKey /\ (key = <<"=">> \/ key = <<"+">>) -> "zoomCanvas:in"
       [] modKey /\ key = <<"-">> -> "zoomCanvas:out"
       [] ev.ctrlKey /\ key = <<"0">> -> "fitToView"
       [] ev.ctrlKey /\ ctx.mode = "normal" /\ key = <<"h">> -> "panCanvas:left"
       [] ev.ctrlKey /\ ctx.mode = "normal" /\ key = <<"j">> -> "panCanvas:down"
       [] ev.ctrlKey /\ ctx.mode = "normal" /\ key = <<"k">> -> "panCanvas:up"
       [] ev.ctrlKey /\ ctx.mode = "normal" /\ key = <<"l">> -> "panCanvas:right"
       [] OTHER -> "none"

\* The chord section of handleKeyDown: the context function it calls, or
\* "none" when no chord matches.
ChordCall(ev, ctx, mac) ==
  LET key == ev.key
      modKey == IF mac THEN ev.metaKey ELSE ev.ctrlKey
  IN CASE (ev.metaKey \/ ev.ctrlKey) /\ key = <<"k">> -> "openCommandPalette"
       [] (ev.metaKey \/ ev.ctrlKey) /\ key = <<"c">> /\ ctx.mode = "normal" ->
            "copyNodeContent"
       [] modKey /\ (key = <<"=">> \/ key = <<"+">>) -> "zoomCanvas:in"
       [] modKey /\ key = <<"-">> -> "zoomCanvas:out"
       [] ev.ctrlKey /\ key = <<"0">> -> "fitToView"
       [] ev.ctrlKey /\ ctx.mode = "normal" /\ key = <<"h">> -> "panCanvas:left"
       [] ev.ctrlKey /\ ctx.mode = "normal" /\ key = <<"j">> -> "panCanvas:down"
       [] ev.ctrlKey /\ ctx.mode = "normal" /\ key = <<"k">> -> "panCanvas:up"
       [] ev.ctrlKey /\ ctx.mode = "normal" /\ key = <<"l">> -> "panCanvas:right"
       [] OTHER -> "none"

Outcome(s, h, ex, cs) ==
  [keyBuffer |-> s.keyBuffer, timeoutId |-> s.timeoutId, timers |-> s.timers,
   handled |-> h, executed |-> ex, calls |-> cs]

\* The sequence section of handleKeyDown (from `if (timeoutId !== null)`)
\* (mutant: a buffered prefix is reported not handled)
SequenceStepMutant(cmds, s, ev, ctx) ==
  LET buf == s.keyBuffer \o ev.key
      exact == FindExactMatch(cmds, buf, ctx.mode)
      s2 == [keyBuffer |-> buf, timeoutId |-> s.timeoutId,
             timers |-> IF s.timeoutId # NULL
                        THEN ClearTimeout(s.timers, s.timeoutId) ELSE s.timers]
  IN IF exact # NULL /\ CanExecute(cmds[exact], ctx)
     THEN Outcome(ResetBuffer(s2), TRUE, <<cmds[exact].id>>, <<>>)
     ELSE IF FindPrefixMatches(cmds, buf, ctx.mode) # {}
     THEN LET t == NewTimerId(s2.timers)
          IN Outcome([keyBuffer |-> buf, timeoutId |-> t,
                      timers |-> s2.timers \cup {t}], FALSE, <<>>, <<>>)
     ELSE Outcome(ResetBuffer(s2), FALSE, <<>>, <<>>)
\* (mutant: the key names in the buffer are set apart by a "+")
AppendKeySeparatorMutant(buffer, key) ==
  IF buffer = <<>> THEN key ELSE buffer \o <<"+">> \o key
\* (mutant: the name of a modifier key is not appended)
AppendKeySkipsShiftMutant(buffer, key) ==
  IF key = <<"S", "h", "i", "f", "t">> THEN buffer ELSE buffer \o key
\* keyBuffer += key
AppendKey(buffer, key) == buffer \o key

\* (mutant: the prefix test comes before the exact match)
SequenceStepPrefixFirstMutant(cmds, s, ev, ctx) ==
  LET buf == s.keyBuffer \o ev.key
      exact == FindExactMatch(cmds, buf, ctx.mode)
      s2 == [keyBuffer |-> buf, timeoutId |-> s.timeoutId,
             timers |-> IF s.timeoutId # NULL
                        THEN ClearTimeout(s.timers, s.timeoutId) ELSE s.timers]
  IN IF FindPrefixMatches(cmds, buf, ctx.mode) # {}
     THEN LET t == NewTimerId(s2.timers)
          IN Outcome([keyBuffer |-> buf, timeoutId |-> t,
                      timers |-> s2.timers \cup {t}], TRUE, <<>>, <<>>)
     ELSE IF exact # NULL /\ CanExecute(cmds[exact], ctx)
     THEN Outcome(ResetBuffer(s2), TRUE, <<cmds[exact].id>>, <<>>)
     ELSE Outcome(ResetBuffer(s2), FALSE, <<>>, <<>>)
\* (mutant: a key pressed with Ctrl or Meta held starts or extends no sequence)
SequenceStepModifierMutant(cmds, s, ev, ctx) ==
  LET buf == AppendKey(s.keyBuffer, ev.key)
      exact == FindExactMatch(cmds, buf, ctx.mode)
      s2 == [keyBuffer |-> buf, timeoutId |-> s.timeoutId,
             timers |-> IF s.timeoutId # NULL
                        THEN ClearTimeout(s.timers, s.timeoutId) ELSE s.timers]
  IN IF ev.metaKey \/ ev.ctrlKey
     THEN Outcome(ResetBuffer(s2), FALSE, <<>>, <<>>)
     ELSE IF exact # NULL /\ CanExecute(cmds[exact], ctx)
     THEN Outcome(ResetBuffer(s2), TRUE, <<cmds[exact].id>>, <<>>)
     ELSE IF FindPrefixMatches(cmds, buf, ctx.mode) # {}
     THEN LET t == NewTimerId(s2.timers)
          IN Outcome([keyBuffer |-> buf, timeoutId |-> t,
                      timers |-> s2.timers \cup {t}], TRUE, <<>>, <<>>)
     ELSE Outcome(ResetBuffer(s2), FALSE, <<>>, <<>>)
SequenceStep(cmds, s, ev, ctx) ==
  LET buf == AppendKey(s.keyBuffer, ev.key)
      exact == FindExactMatch(cmds, buf, ctx.mode)
      s2 == [keyBuffer |-> buf, timeoutId |-> s.timeoutId,
             timers |-> IF s.timeoutId # NULL
                        THEN ClearTimeout(s.timers, s.timeoutId) ELSE s.timers]
  IN IF exact # NULL /\ CanExecute(cmds[exact], ctx)
     THEN Outcome(ResetBuffer(s2), TRUE, <<cmds[exact].id>>, <<>>)
     ELSE IF FindPrefixMatches(cmds, buf, ctx.mode) # {}
     THEN LET t == NewTimerId(s2.timers)
          IN Outcome([keyBuffer |-> buf, timeoutId |-> t,
                      timers |-> s2.timers \cup {t}], TRUE, <<>>, <<>>)
     ELSE Outcome(ResetBuffer(s2), FALSE, <<>>, <<>>)

\* (mutant: focus suppression is checked before the Escape command)
HandleKeyDownMutant(cmds, mac, s, ev, ctx) ==
  LET escCmd == FindExactMatch(cmds, Escape, ctx.mode)
      chord == ChordCall(ev, ctx, mac)
  IN IF IsTextTarget(ev)
     THEN Outcome(s, FALSE, <<>>, <<>>)
     ELSE IF ev.key = Escape /\ escCmd # NULL /\ CanExecute(cmds[escCmd], ctx)
     THEN Outcome(ResetBuffer(s), TRUE, <<cmds[escCmd].id>>, <<>>)
     ELSE IF chord # "none"
     THEN Outcome(ResetBuffer(s), TRUE, <<>>, <<chord>>)
     ELSE SequenceStep(cmds, s, ev, ctx)
\* handleKeyDown(event, context): the closure state afterwards, the value
\* returned, the commands executed and the context functions called.
HandleKeyDown(cmds, mac, s, ev, ctx) ==
  LET escCmd == FindExactMatch(cmds, Escape, ctx.mode)
      chord == ChordCall(ev, ctx, mac)
  IN IF ev.key = Escape /\ escCmd # NULL /\ CanExecute(cmds[escCmd], ctx)
     THEN Outcome(ResetBuffer(s), TRUE, <<cmds[escCmd].id>>, <<>>)
     ELSE IF IsTextTarget(ev)
     THEN Outcome(s, FALSE, <<>>, <<>>)
     ELSE IF chord # "none"
     THEN Outcome(ResetBuffer(s), TRUE, <<>>, <<chord>>)
     ELSE SequenceStep(cmds, s, ev, ctx)

\* (mutant: the operand after && is evaluated whatever the match is)
GuardedMutant(match) == TRUE
\* `match && (!match.canExecute || match.canExecute(context))`: the operand
\* that reads the properties of match is evaluated when match is not null
Guarded(match) == match # NULL

\* handleKeyDown ends in a TypeError when it reads a property of null: of
\* the Escape command, or of the exact match of the extended buffer when
\* the call gets as far as the sequence section.  Every path that reads no
\* null returns true or false; the callbacks of the registries and of the
\* contexts here return.
Raises(cmds, mac, s, ev, ctx) ==
  LET escCmd == FindExactMatch(cmds, Escape, ctx.mode)
      exactMatch == FindExactMatch(cmds, s.keyBuffer \o ev.key, ctx.mode)
      escRaises == ev.key = Escape /\ Guarded(escCmd) /\ escCmd = NULL
      escRuns == /\ ev.key = Escape /\ escCmd # NULL
                 /\ CanExecute(cmds[escCmd], ctx)
  IN \/ escRaises
     \/ /\ ~escRuns
        /\ ~IsTextTarget(ev)
        /\ ChordCall(ev, ctx, mac) = "none"
        /\ Guarded(exactMatch)
        /\ exactMatch = NULL

(***************************************************************************)
(* The environment of the engine: the keys pressed, the modifiers held,    *)
(* the element that has the focus (the event's target) and the context     *)
(* the caller captures for each event.                                     *)
(***************************************************************************)
KeyNames ==
  { <<"d">>, <<"g">>, <<"c">>, <<"i">>, <<"n">>, <<"j">>, <<"k">>, <<"h">>,
    <<"l">>, <<"x">>, <<"=">>, <<"+">>, <<"-">>, <<"0">>, Escape }

Targets == {"body", "input", "textarea"}

\* a selected node exists, and only a selected node can be the root
Contexts ==
  {c \in [mode : Modes, selectedNodeId : {NULL, 1}, hasNodes : BOOLEAN,
          isSelectedNodeRoot : BOOLEAN] :
     /\ c.isSelectedNodeRoot => c.selectedNodeId # NULL
     /\ c.hasNodes <=> c.selectedNodeId # NULL}

NoEvent == [key |-> <<>>, metaKey |-> FALSE, ctrlKey |-> FALSE, target |-> "body"]

Closure == [keyBuffer |-> keyBuffer, timeoutId |-> timeoutId, timers |-> timers]

InitEngine ==
  /\ commands \in Registries
  /\ isMac \in BOOLEAN
  /\ keyBuffer = <<>>
  /\ timeoutId = NULL
  /\ timers = {}
  /\ context \in Contexts
  /\ metaHeld = FALSE
  /\ ctrlHeld = FALSE
  /\ focus = "body"
  /\ lastOp = "init"
  /\ lastEvent = NoEvent
  /\ handled = FALSE
  /\ executed = <<>>
  /\ calls = <<>>
  /\ raised = FALSE

\* one keydown event dispatched to handleKeyDown
KeyDownOf(k) ==
  LET ev == [key |-> k, metaKey |-> metaHeld, ctrlKey |-> ctrlHeld,
             target |-> focus]
      r == HandleKeyDown(commands, isMac, Closure, ev, context)
  IN /\ keyBuffer' = r.keyBuffer
     /\ timeoutId' = r.timeoutId
     /\ timers' = r.timers
     /\ handled' = r.handled
     /\ executed' = r.executed
     /\ calls' = r.calls
     /\ raised' = Raises(commands, isMac, Closure, ev, context)
     /\ lastEvent' = ev
     /\ lastOp' = "keydown"
     /\ UNCHANGED <<commands, isMac, context, metaHeld, ctrlHeld, focus>>

KeyDown == \E k \in KeyNames : KeyDownOf(k)

\* a step of the environment leaves no handleKeyDown call to report
NoCall ==
  /\ lastEvent' = NoEvent
  /\ handled' = FALSE
  /\ executed' = <<>>
  /\ calls' = <<>>
  /\ raised' = FALSE

\* (mutant: the timer's callback leaves the closure as it is)
TimeoutCallbackMutant(s) == s
\* the callback handed to setTimeout: resetBuffer
TimeoutCallback(s) == ResetBuffer(s)

\* a scheduled timer fires and its callback runs
Timeout ==
  \E t \in timers :
    LET r == TimeoutCallback([keyBuffer |-> keyBuffer, timeoutId |-> timeoutId,
                              timers |-> timers \ {t}])
    IN /\ keyBuffer' = r.keyBuffer
       /\ timeoutId' = r.timeoutId
       /\ timers' = r.timers
       /\ lastOp' = "timeout"
       /\ NoCall
       /\ UNCHANGED <<commands, isMac, context, metaHeld, ctrlHeld, focus>>

\* the caller builds the next event's context (mode, selection) afresh
SetContext ==
  /\ \E c \in Contexts : c # context /\ context' = c
  /\ lastOp' = "context"
  /\ NoCall
  /\ UNCHANGED <<commands, isMac, keyBuffer, timeoutId, timers,
                 metaHeld, ctrlHeld, focus>>

\* a modifier key goes down or up
SetModifiers ==
  /\ \/ metaHeld' = ~metaHeld /\ ctrlHeld' = ctrlHeld
     \/ metaHeld' = metaHeld /\ ctrlHeld' = ~ctrlHeld
  /\ lastOp' = "modifiers"
  /\ NoCall
  /\ UNCHANGED <<commands, isMac, keyBuffer, timeoutId, timers, context, focus>>

\* the focus moves to another element
SetFocus ==
  /\ \E t \in Targets : t # focus /\ focus' = t
  /\ lastOp' = "focus"
  /\ NoCall
  /\ UNCHANGED <<commands, isMac, keyBuffer, timeoutId, timers, context,
                 metaHeld, ctrlHeld>>

(***************************************************************************)
(* Properties of the key-sequence engine                                   *)
(***************************************************************************)
Idle == keyBuffer = <<>> /\ timeoutId = NULL /\ timers = {}

\* the precondition of a registry entry, read off the registry itself
PreconditionPasses(cmd, ctx) ==
  \/ cmd.guard = "none"
  \/ cmd.guard = "selected" /\ ctx.selectedNodeId # NULL
  \/ cmd.guard = "selectedNotRoot" /\ ctx.selectedNodeId # NULL
       /\ ~ctx.isSelectedNodeRoot

Bindings(cmd) == {cmd.keybindings[b] : b \in 1..Len(cmd.keybindings)}

IsProperPrefix(p, b) == Len(p) < Len(b) /\ SubSeq(b, 1, Len(p)) = p

\* the Escape command of the context's mode runs
EscapeRuns(ev, ctx) ==
  /\ ev.key = Escape
  /\ \E i \in 1..Len(commands) :
       /\ Escape \in Bindings(commands[i])
       /\ ctx.mode \in commands[i].modes
       /\ PreconditionPasses(commands[i], ctx)

\* the key of the event is appended to the buffer: the event comes from no
\* text field, is no chord and runs no Escape command
Sequenced(ev, ctx) ==
  /\ ev.target \notin {"input", "textarea"}
  /\ ChordCall(ev, ctx, isMac) = "none"
  /\ ~EscapeRuns(ev, ctx)

\* C1: a key appended to the buffer that leaves it a proper prefix of a
\* binding is reported handled and executes nothing; the key that completes
\* a binding begun by earlier keys, of a command that lists the mode and
\* whose precondition passes, executes that command once, is reported
\* handled and leaves the engine idle.
C1_MultiKeySequence ==
  [][lastOp' = "keydown" =>
       LET buf == keyBuffer \o lastEvent'.key
       IN \A i \in 1..Len(commands) : \A b \in Bindings(commands[i]) :
            /\ (/\ keyBuffer' = buf
                /\ IsProperPrefix(buf, b)
                /\ context.mode \in commands[i].modes)
               => handled' /\ executed' = <<>> /\ calls' = <<>>
            /\ (/\ Sequenced(lastEvent', context)
                /\ keyBuffer # <<>>
                /\ buf = b
                /\ context.mode \in commands[i].modes
                /\ PreconditionPasses(commands[i], context))
               => /\ executed' = <<commands[i].id>>
                  /\ handled'
                  /\ Idle'
  ]_vars

\* C1 witness: the third key of "cin" has just run edit.changeNode
C1_Witness ==
  /\ lastOp = "keydown"
  /\ lastEvent.key = <<"n">>
  /\ executed = <<"edit.changeNode">>
  /\ handled
  /\ Idle

\* C2: a timeout that fires discards the buffered prefix and executes
\* nothing, and the key after it starts a new sequence: when it is the first
\* key of a longer binding and not itself an executable binding it is only
\* buffered.
C2_TimeoutDiscards ==
  [][/\ lastOp' = "timeout" => Idle' /\ executed' = <<>> /\ ~handled'
     /\ (/\ lastOp = "timeout"
         /\ lastOp' = "keydown"
         /\ Sequenced(lastEvent', context)
         /\ \E i \in 1..Len(commands) : \E b \in Bindings(commands[i]) :
              /\ IsProperPrefix(lastEvent'.key, b)
              /\ context.mode \in commands[i].modes
         /\ ~\E i \in 1..Len(commands) :
              /\ lastEvent'.key \in Bindings(commands[i])
              /\ context.mode \in commands[i].modes
              /\ PreconditionPasses(commands[i], context))
        => /\ executed' = <<>>
           /\ keyBuffer' = lastEvent'.key
           /\ handled'
  ]_vars

\* C2 witness: a timer has fired and left the engine idle
C2_Witness == lastOp = "timeout" /\ Idle

\* C3: an Escape event runs the Escape command of the mode whenever there
\* is one whose precondition passes, whatever the buffer and the target.
C3_EscapeFirst ==
  [][lastOp' = "keydown" /\ lastEvent'.key = Escape =>
       \A i \in 1..Len(commands) :
         (/\ Escape \in Bindings(commands[i])
          /\ context.mode \in commands[i].modes
          /\ PreconditionPasses(commands[i], context))
         => /\ executed' = <<commands[i].id>>
            /\ handled'
            /\ Idle'
  ]_vars

\* C3 witness: Escape typed into a textarea has run mode.exitInsert
C3_Witness ==
  /\ lastOp = "keydown"
  /\ lastEvent.key = Escape
  /\ lastEvent.target = "textarea"
  /\ executed = <<"mode.exitInsert">>
  /\ handled

\* C4: a key other than Escape typed into an input or textarea is reported
\* not handled, executes nothing, calls no chord and leaves the buffer and
\* the pending timeout as they were.
C4_TextFieldIgnored ==
  [][(/\ lastOp' = "keydown"
      /\ lastEvent'.target \in {"input", "textarea"}
      /\ lastEvent'.key # Escape)
     => /\ ~handled'
        /\ executed' = <<>>
        /\ calls' = <<>>
        /\ keyBuffer' = keyBuffer
        /\ timeoutId' = timeoutId
        /\ timers' = timers
  ]_vars

\* C4 witness: a key typed into a textarea while a prefix is buffered
C4_Witness ==
  /\ lastOp = "keydown"
  /\ lastEvent.target = "textarea"
  /\ lastEvent.key = <<"d">>
  /\ keyBuffer = <<"d">>
  /\ timeoutId # NULL
  /\ ~handled

\* the appended buffer equals a binding of a command that lists the mode and
\* whose precondition fails
ExactButRefused(buf, ctx) ==
  \E i \in 1..Len(commands) :
    /\ buf \in Bindings(commands[i])
    /\ ctx.mode \in commands[i].modes
    /\ ~PreconditionPasses(commands[i], ctx)

\* the appended buffer can still grow into a binding of the mode
StrictPrefixOfSome(buf, ctx) ==
  \E i \in 1..Len(commands) : \E b \in Bindings(commands[i]) :
    IsProperPrefix(buf, b) /\ ctx.mode \in commands[i].modes

\* C5 as stated: a binding whose precondition fails is not executed and the
\* event is reported not handled.
C5_RefusedIsUnhandled ==
  [][(/\ lastOp' = "keydown"
      /\ Sequenced(lastEvent', context)
      /\ ExactButRefused(keyBuffer \o lastEvent'.key, context))
     => executed' = <<>> /\ ~handled'
  ]_vars

\* C5 amended: a binding whose precondition fails is not executed; the event
\* is reported not handled and the engine left idle, unless the buffer is
\* also a strict prefix of a binding of the mode: then it is buffered and
\* reported handled.
C5_RefusedFallsThrough ==
  [][(/\ lastOp' = "keydown"
      /\ Sequenced(lastEvent', context)
      /\ ExactButRefused(keyBuffer \o lastEvent'.key, context))
     => /\ executed' = <<>>
        /\ IF StrictPrefixOfSome(keyBuffer \o lastEvent'.key, context)
           THEN handled' /\ keyBuffer' = keyBuffer \o lastEvent'.key
           ELSE ~handled' /\ Idle'
  ]_vars

\* C5 witness: "g" with nothing selected matches the refused "g" binding and
\* is buffered as the first key of "gg"
C5_Witness ==
  /\ lastOp = "keydown"
  /\ commands = LeaderCommands
  /\ context.mode = "normal"
  /\ context.selectedNodeId = NULL
  /\ lastEvent.key = <<"g">>
  /\ keyBuffer = <<"g">>
  /\ handled
  /\ executed = <<>>

\* C6: a key appended to the buffer after which the buffer neither equals a
\* binding of a command that lists the mode nor is a strict prefix of one is
\* reported not handled, executes nothing and leaves the engine idle; and no
\* command ever executes in a mode it does not list.
C6_NoMatchResets ==
  [][lastOp' = "keydown" =>
       /\ (/\ Sequenced(lastEvent', context)
           /\ ~\E i \in 1..Len(commands) :
                /\ (keyBuffer \o lastEvent'.key) \in Bindings(commands[i])
                /\ context.mode \in commands[i].modes
           /\ ~StrictPrefixOfSome(keyBuffer \o lastEvent'.key, context))
          => ~handled' /\ executed' = <<>> /\ calls' = <<>> /\ Idle'
       /\ \A n \in 1..Len(executed') : \A i \in 1..Len(commands) :
            commands[i].id = executed'[n] => context.mode \in commands[i].modes
  ]_vars

\* C6 witness: "j", bound in normal mode only, pressed in insert mode
C6_Witness ==
  /\ lastOp = "keydown"
  /\ commands = DefaultCommands
  /\ context.mode = "insert"
  /\ lastEvent.key = <<"j">>
  /\ lastEvent.target = "body"
  /\ ~lastEvent.metaKey /\ ~lastEvent.ctrlKey
  /\ ~handled
  /\ executed = <<>>
  /\ Idle

\* the chords of the claim that no mode restricts: palette-open with either
\* modifier, zoom with the platform's primary modifier, fit-to-view with ctrl
ModeFreeChord(ev, mac) ==
  LET primary == IF mac THEN ev.metaKey ELSE ev.ctrlKey
  IN CASE (ev.metaKey \/ ev.ctrlKey) /\ ev.key = <<"k">> -> "openCommandPalette"
       [] primary /\ ev.key \in {<<"=">>, <<"+">>} -> "zoomCanvas:in"
       [] primary /\ ev.key = <<"-">> -> "zoomCanvas:out"
       [] ev.ctrlKey /\ ev.key = <<"0">> -> "fitToView"
       [] OTHER -> "none"

\* the copy chord, with either modifier
CopyChord(ev) == (ev.metaKey \/ ev.ctrlKey) /\ ev.key = <<"c">>

\* the directional pan chords that no other chord shadows
PanChord(ev) ==
  CASE ev.ctrlKey /\ ev.key = <<"h">> -> "panCanvas:left"
    [] ev.ctrlKey /\ ev.key = <<"j">> -> "panCanvas:down"
    [] ev.ctrlKey /\ ev.key = <<"l">> -> "panCanvas:right"
    [] OTHER -> "none"

\* a chord's effect has run at once: nothing buffered, the event handled,
\* no command executed, the engine idle
ChordRan(call) ==
  /\ calls' = <<call>>
  /\ handled'
  /\ executed' = <<>>
  /\ Idle'

C25_CtrlKPansUp ==
  [][(/\ lastOp' = "keydown"
      /\ lastEvent'.key = <<"k">>
      /\ lastEvent'.ctrlKey
      /\ lastEvent'.target = "body"
      /\ context.mode = "normal")
     => (calls' = <<"panCanvas:up">> /\ handled')
  ]_vars

\* C25 witness: Ctrl+k in normal mode has opened the palette and has not
\* panned
C25_Witness ==
  /\ lastOp = "keydown"
  /\ lastEvent.key = <<"k">>
  /\ lastEvent.ctrlKey /\ ~lastEvent.metaKey
  /\ lastEvent.target = "body"
  /\ context.mode = "normal"
  /\ calls = <<"openCommandPalette">>
  /\ handled

\* the buffer is not empty and the one timer scheduled is the one timeoutId
\* names
Buffering == keyBuffer # <<>> /\ timeoutId # NULL /\ timers = {timeoutId}

\* C28: after every key event and every timeout firing the engine is idle
\* (empty buffer, no timeout pending) or buffering (non-empty buffer, exactly
\* one timeout pending); a timeout that a later key cancelled and replaced
\* never fires: the timer that fires is the one armed by the last key that
\* extended the buffer, and a key that extends the buffer further leaves
\* only its own timer scheduled.
C28_IdleOrBuffering ==
  [][/\ (Idle \/ Buffering) /\ (Idle' \/ Buffering')
     /\ lastOp' = "timeout" =>
         (Buffering /\ timers \ timers' = {timeoutId} /\ Idle')
     /\ (lastOp' = "keydown" /\ Buffering /\ keyBuffer' # keyBuffer
          /\ keyBuffer' # <<>>)
        => (timers' = {timeoutId'} /\ Cardinality(timers') = 1)
  ]_vars

\* C28 witness: the second key of "cin" has replaced the timeout of the
\* first, and one timeout is pending
C28_Witness ==
  /\ lastOp = "keydown"
  /\ keyBuffer = <<"c", "i">>
  /\ lastEvent.key = <<"i">>
  /\ handled
  /\ timeoutId # NULL
  /\ timers = {timeoutId}

\* the registry without the commands whose precondition fails on ctx
WithoutRefused(cmds, ctx) == SelectSeq(cmds, LAMBDA c : PreconditionPasses(c, ctx))

\* what handleKeyDown would do with the event on that smaller registry
AsIfAbsent(ev) ==
  HandleKeyDown(WithoutRefused(commands, context), isMac, Closure, ev, context)

\* the appended buffer completes no binding that can run, and the only
\* bindings of the mode it can still grow into are those of refused commands
HeldByRefused(ev, ctx) ==
  LET buf == keyBuffer \o ev.key
  IN /\ Sequenced(ev, ctx)
     /\ ~\E i \in 1..Len(commands) :
          /\ buf \in Bindings(commands[i])
          /\ ctx.mode \in commands[i].modes
          /\ PreconditionPasses(commands[i], ctx)
     /\ StrictPrefixOfSome(buf, ctx)
     /\ ~\E i \in 1..Len(commands) : \E b \in Bindings(commands[i]) :
          /\ IsProperPrefix(buf, b)
          /\ ctx.mode \in commands[i].modes
          /\ PreconditionPasses(commands[i], ctx)

\* C29 as stated: a command whose precondition fails on the context is as
\* good as absent: every key event returns the value, leaves the buffer and
\* executes the command it would with that command out of the registry, in
\* exact matching and in prefix matching alike.
C29_RefusedIsAbsent ==
  [][lastOp' = "keydown" =>
       /\ handled' = AsIfAbsent(lastEvent').handled
       /\ keyBuffer' = AsIfAbsent(lastEvent').keyBuffer
       /\ executed' = AsIfAbsent(lastEvent').executed
  ]_vars

\* C29 amended: a refused command never executes and is as good as absent
\* in exact matching, but prefix matching does not look at preconditions:
\* a key event has the outcome it would have without the refused commands,
\* except when the appended buffer is held only by bindings of refused
\* commands; then the key is buffered and reported handled, where without
\* them it would be dropped and reported not handled.
C29_RefusedAbsentForExactMatch ==
  [][lastOp' = "keydown" =>
       /\ \A n \in 1..Len(executed') : \A i \in 1..Len(commands) :
            commands[i].id = executed'[n] =>
              PreconditionPasses(commands[i], context)
       /\ IF HeldByRefused(lastEvent', context)
          THEN /\ handled'
               /\ keyBuffer' = keyBuffer \o lastEvent'.key
               /\ executed' = <<>>
               /\ ~AsIfAbsent(lastEvent').handled
               /\ AsIfAbsent(lastEvent').keyBuffer = <<>>
          ELSE /\ handled' = AsIfAbsent(lastEvent').handled
               /\ keyBuffer' = AsIfAbsent(lastEvent').keyBuffer
               /\ executed' = AsIfAbsent(lastEvent').executed
  ]_vars

\* C29 witness: with the default registry and nothing selected, "d" is
\* buffered and reported handled for the refused "dd"
C29_Witness ==
  /\ lastOp = "keydown"
  /\ commands = DefaultCommands
  /\ context.mode = "normal"
  /\ context.selectedNodeId = NULL
  /\ lastEvent.key = <<"d">>
  /\ lastEvent.target = "body"
  /\ keyBuffer = <<"d">>
  /\ handled
  /\ executed = <<>>

\* the commands of the mode that the appended buffer completes and whose
\* precondition passes
ExecutableExact(buf, ctx) ==
  {i \in 1..Len(commands) :
     /\ buf \in Bindings(commands[i])
     /\ ctx.mode \in commands[i].modes
     /\ PreconditionPasses(commands[i], ctx)}

\* C30: when the appended buffer is an executable binding of the mode, that
\* command executes at once and the engine is left idle, even when the buffer
\* is also a strict prefix of another binding; the appended buffer is
\* discarded with nothing executed only when no command of the mode can run
\* on it and none has a longer binding that starts with it, and it is kept
\* whenever it is such a prefix and completes nothing that can run.
C30_ExactBeforePrefix ==
  [][(lastOp' = "keydown" /\ Sequenced(lastEvent', context)) =>
       LET buf == keyBuffer \o lastEvent'.key
       IN /\ ExecutableExact(buf, context) # {} =>
               /\ Len(executed') = 1
               /\ \E i \in ExecutableExact(buf, context) :
                    executed'[1] = commands[i].id
               /\ handled'
               /\ Idle'
          /\ (keyBuffer' = <<>> /\ executed' = <<>>) =>
               /\ ExecutableExact(buf, context) = {}
               /\ ~StrictPrefixOfSome(buf, context)
               /\ ~handled'
          /\ (ExecutableExact(buf, context) = {}
              /\ StrictPrefixOfSome(buf, context)) =>
               /\ keyBuffer' = buf
               /\ executed' = <<>>
               /\ handled'
  ]_vars

\* C30 witness: "g" with a node selected ran the command bound to "g" at
\* once, although "g" is the first key of "gg"
C30_Witness ==
  /\ lastOp = "keydown"
  /\ commands = LeaderCommands
  /\ context.mode = "normal"
  /\ context.selectedNodeId # NULL
  /\ lastEvent.key = <<"g">>
  /\ lastEvent.target = "body"
  /\ executed = <<"leader">>
  /\ handled
  /\ Idle

\* the same key event with no modifier held
Unmodified(ev) ==
  [key |-> ev.key, metaKey |-> FALSE, ctrlKey |-> FALSE, target |-> ev.target]

\* C36: a key event with Ctrl or Meta held that matches no chord is buffered
\* and matched exactly like the same key without modifiers: the buffer, the
\* timer, the command executed and the value returned are those of the
\* unmodified event; no context function is called
C36_ModifiersIgnoredBySequence ==
  [][(/\ lastOp' = "keydown"
      /\ (lastEvent'.metaKey \/ lastEvent'.ctrlKey)
      /\ ChordCall(lastEvent', context, isMac) = "none") =>
       LET plain == HandleKeyDown(commands, isMac, Closure,
                                  Unmodified(lastEvent'), context)
       IN /\ keyBuffer' = plain.keyBuffer
          /\ timeoutId' = plain.timeoutId
          /\ timers' = plain.timers
          /\ handled' = plain.handled
          /\ executed' = plain.executed
          /\ calls' = <<>>
          /\ plain.calls = <<>>
  ]_vars

\* C36 witness: Meta+j in normal mode with a node selected ran the command
\* bound to "j" and was reported handled
C36_Witness ==
  /\ lastOp = "keydown"
  /\ commands = DefaultCommands
  /\ context.mode = "normal"
  /\ context.selectedNodeId # NULL
  /\ lastEvent.key = <<"j">>
  /\ lastEvent.metaKey
  /\ ~lastEvent.ctrlKey
  /\ lastEvent.target = "body"
  /\ executed = <<"nav.nextSibling">>
  /\ calls = <<>>
  /\ handled
  /\ Idle

\* C37: with the default command registry, after any Escape key event whose
\* target is not a text field the engine is idle (empty buffer, no pending
\* timeout) in every mode, whether or not an Escape-bound command executed
C37_EscapeLeavesIdle ==
  (/\ lastOp = "keydown"
   /\ commands = DefaultCommands
   /\ lastEvent.key = Escape
   /\ lastEvent.target = "body") => Idle

\* C37 witness: in normal mode, where the default registry binds nothing to
\* Escape, an Escape event outside a text field executed nothing, was
\* reported not handled and left the engine idle
C37_Witness ==
  /\ lastOp = "keydown"
  /\ commands = DefaultCommands
  /\ context.mode = "normal"
  /\ lastEvent.key = Escape
  /\ lastEvent.target = "body"
  /\ executed = <<>>
  /\ ~handled
  /\ Idle

(***************************************************************************)
(* storage/repository: the in-memory repository.  The Map is a sequence of *)
(* nodes in insertion order; the objects it hands out are the stored ones. *)
(***************************************************************************)
Node(id, content, parentId, order) ==
  [id |-> id, content |-> content, parentId |-> parentId, order |-> order]

\* the position of the node with this id, 0 when there is none
IndexOf(r, id) ==
  IF \E i \in 1..Len(r) : r[i].id = id
  THEN CHOOSE i \in 1..Len(r) : r[i].id = id
  ELSE 0

Has(r, id) == IndexOf(r, id) # 0

\* nodes.get(id); only read when Has(r, id)
FindById(r, id) == r[IndexOf(r, id)]

\* nodes.set(node.id, node): an existing key keeps its position
Save(r, node) ==
  IF Has(r, node.id) THEN [r EXCEPT ![IndexOf(r, node.id)] = node]
  ELSE Append(r, node)

\* nodes.delete(id)
Delete(r, id) == SelectSeq(r, LAMBDA n : n.id # id)

\* Array.from(nodes.values())
FindAll(r) == r

\* Array.prototype.sort((a, b) => a.order - b.order): a stable sort
InsertSorted(sorted, n) ==
  LET k == Cardinality({i \in 1..Len(sorted) : sorted[i].order <= n.order})
  IN SubSeq(sorted, 1, k) \o <<n>> \o SubSeq(sorted, k + 1, Len(sorted))

RECURSIVE SortByOrder(_)
SortByOrder(s) ==
  IF s = <<>> THEN <<>>
  ELSE InsertSorted(SortByOrder(SubSeq(s, 1, Len(s) - 1)), s[Len(s)])

FindByParentId(r, parentId) ==
  SortByOrder(SelectSeq(r, LAMBDA n : n.parentId = parentId))

(***************************************************************************)
(* services/mindMapService: queries                                        *)
(***************************************************************************)
\* the id of a node or null, for `node?.id ?? null`
Ids(s) == [i \in 1..Len(s) |-> s[i].id]

GetRootNode(r) ==
  LET roots == SelectSeq(FindAll(r), LAMBDA n : n.parentId = NULL)
  IN IF roots = <<>> THEN NULL ELSE roots[1].id

GetChildren(r, parentId) == FindByParentId(r, parentId)

\* the id of the parent node, NULL when the node or its parent is missing
GetParent(r, nodeId) ==
  IF ~Has(r, nodeId) THEN NULL
  ELSE IF FindById(r, nodeId).parentId = NULL THEN NULL
  ELSE IF Has(r, FindById(r, nodeId).parentId)
  THEN FindById(r, nodeId).parentId
  ELSE NULL

GetSiblings(r, nodeId) ==
  IF ~Has(r, nodeId) THEN <<>>
  ELSE SelectSeq(FindByParentId(r, FindById(r, nodeId).parentId),
                 LAMBDA n : n.id # nodeId)

HasChildren(r, nodeId) == Len(FindByParentId(r, nodeId)) > 0

IsRootNode(r, nodeId) == Has(r, nodeId) /\ FindById(r, nodeId).parentId = NULL

GetParentId(r, nodeId) == GetParent(r, nodeId)

GetFirstChildId(r, nodeId) ==
  LET children == GetChildren(r, nodeId)
  IN IF children = <<>> THEN NULL ELSE children[1].id

\* { ids, index }, index counted from 1 and 0 for "not there"
GetSiblingsWithSelf(r, nodeId) ==
  IF ~Has(r, nodeId) THEN [ids |-> <<>>, index |-> 0]
  ELSE LET node == FindById(r, nodeId)
           siblings == IF node.parentId = NULL
                       THEN SelectSeq(FindAll(r), LAMBDA n : n.parentId = NULL)
                       ELSE GetChildren(r, node.parentId)
       IN [ids |-> Ids(siblings), index |-> IndexOf(siblings, nodeId)]

GetNextSiblingId(r, nodeId) ==
  LET w == GetSiblingsWithSelf(r, nodeId)
  IN IF w.index = 0 \/ w.index >= Len(w.ids) THEN NULL
     ELSE w.ids[w.index + 1]

\* (mutant: the previous sibling is taken to be the first of the list)
GetPreviousSiblingIdMutant(r, nodeId) ==
  LET w == GetSiblingsWithSelf(r, nodeId)
  IN IF w.index <= 1 THEN NULL ELSE w.ids[1]
GetPreviousSiblingId(r, nodeId) ==
  LET w == GetSiblingsWithSelf(r, nodeId)
  IN IF w.index <= 1 THEN NULL ELSE w.ids[w.index - 1]

(***************************************************************************)
(* services/mindMapService: mutations.  Each gives the repository after    *)
(* the call and what the call returned: value is the id of the node        *)
(* returned (NULL for null or void), error the reason of a failure.        *)
(***************************************************************************)
Ret(r, ok, value, error) ==
  [repo |-> r, ok |-> ok, value |-> value, error |-> error]

MaxOrder(siblings) ==
  IF Len(siblings) > 0
  THEN CHOOSE m \in {siblings[i].order : i \in 1..Len(siblings)} :
         \A i \in 1..Len(siblings) : siblings[i].order <= m
  ELSE -1

CreateNode(r, id, content, parentId) ==
  LET siblings == FindByParentId(r, parentId)
      node == Node(id, content, parentId, MaxOrder(siblings) + 1)
  IN Ret(Save(r, node), TRUE, id, "")

\* (mutant: the siblings from `from` on move two places)
ShiftOrdersMutant(r, siblings, from) ==
  LET moved == {siblings[i].id : i \in from..Len(siblings)}
  IN [i \in 1..Len(r) |->
        IF r[i].id \in moved THEN [r[i] EXCEPT !.order = @ + 2] ELSE r[i]]
\* siblings[i].order += 1 and save(siblings[i]) for i from `from` on
ShiftOrders(r, siblings, from) ==
  LET moved == {siblings[i].id : i \in from..Len(siblings)}
  IN [i \in 1..Len(r) |->
        IF r[i].id \in moved THEN [r[i] EXCEPT !.order = @ + 1] ELSE r[i]]

\* (mutant: sibling.order is read before the shift)
CreateSiblingAboveMutant(r, id, siblingId, content) ==
  IF ~Has(r, siblingId) \/ FindById(r, siblingId).parentId = NULL
  THEN Ret(r, TRUE, NULL, "")
  ELSE LET sibling == FindById(r, siblingId)
           siblings == FindByParentId(r, sibling.parentId)
           siblingIndex == IndexOf(siblings, siblingId)
           r1 == ShiftOrders(r, siblings, siblingIndex)
           node == Node(id, content, sibling.parentId, sibling.order - 1)
       IN Ret(Save(r1, node), TRUE, id, "")
\* `sibling` is the stored object, so sibling.order is read after the shift
CreateSiblingAbove(r, id, siblingId, content) ==
  IF ~Has(r, siblingId) \/ FindById(r, siblingId).parentId = NULL
  THEN Ret(r, TRUE, NULL, "")
  ELSE LET sibling == FindById(r, siblingId)
           siblings == FindByParentId(r, sibling.parentId)
           siblingIndex == IndexOf(siblings, siblingId)
           r1 == ShiftOrders(r, siblings, siblingIndex)
           node == Node(id, content, sibling.parentId,
                        FindById(r1, siblingId).order - 1)
       IN Ret(Save(r1, node), TRUE, id, "")

\* (mutant: the later siblings are not moved)
CreateSiblingBelowMutant(r, id, siblingId, content) ==
  IF ~Has(r, siblingId) \/ FindById(r, siblingId).parentId = NULL
  THEN Ret(r, TRUE, NULL, "")
  ELSE LET sibling == FindById(r, siblingId)
           node == Node(id, content, sibling.parentId, sibling.order + 1)
       IN Ret(Save(r, node), TRUE, id, "")
CreateSiblingBelow(r, id, siblingId, content) ==
  IF ~Has(r, siblingId) \/ FindById(r, siblingId).parentId = NULL
  THEN Ret(r, TRUE, NULL, "")
  ELSE LET sibling == FindById(r, siblingId)
           siblings == FindByParentId(r, sibling.parentId)
           siblingIndex == IndexOf(siblings, siblingId)
           r1 == ShiftOrders(r, siblings, siblingIndex + 1)
           node == Node(id, content, sibling.parentId,
                        FindById(r1, siblingId).order + 1)
       IN Ret(Save(r1, node), TRUE, id, "")

\* (mutant: the child keeps its order)
InsertBetweenParentAndChildMutant(r, id, childId, content) ==
  IF ~Has(r, childId) \/ FindById(r, childId).parentId = NULL
  THEN Ret(r, TRUE, NULL, "")
  ELSE LET child == FindById(r, childId)
           newNode == Node(id, content, child.parentId, child.order)
           child2 == [child EXCEPT !.parentId = id]
           r1 == [r EXCEPT ![IndexOf(r, childId)] = child2]
       IN Ret(Save(Save(r1, newNode), child2), TRUE, id, "")
InsertBetweenParentAndChild(r, id, childId, content) ==
  IF ~Has(r, childId) \/ FindById(r, childId).parentId = NULL
  THEN Ret(r, TRUE, NULL, "")
  ELSE LET child == FindById(r, childId)
           newNode == Node(id, content, child.parentId, child.order)
           child2 == [child EXCEPT !.parentId = id, !.order = 0]
           r1 == [r EXCEPT ![IndexOf(r, childId)] = child2]
       IN Ret(Save(Save(r1, newNode), child2), TRUE, id, "")

UpdateContent(r, nodeId, content) ==
  IF ~Has(r, nodeId) THEN Ret(r, FALSE, NULL, "throw: Node not found")
  ELSE Ret(Save(r, [FindById(r, nodeId) EXCEPT !.content = content]),
           TRUE, nodeId, "")

\* (mutant: the children are looked at before the parent)
DeleteNodeRootLastMutant(r, nodeId) ==
  IF ~Has(r, nodeId) THEN Ret(r, FALSE, NULL, "Node not found")
  ELSE IF HasChildren(r, nodeId)
  THEN Ret(r, FALSE, NULL, "Node has children")
  ELSE IF FindById(r, nodeId).parentId = NULL
  THEN Ret(r, FALSE, NULL, "Cannot delete root node")
  ELSE Ret(Delete(r, nodeId), TRUE, NULL, "")
\* (mutant: a node with children is deleted)
DeleteNodeMutant(r, nodeId) ==
  IF ~Has(r, nodeId) THEN Ret(r, FALSE, NULL, "Node not found")
  ELSE IF FindById(r, nodeId).parentId = NULL
  THEN Ret(r, FALSE, NULL, "Cannot delete root node")
  ELSE Ret(Delete(r, nodeId), TRUE, NULL, "")
DeleteNode(r, nodeId) ==
  IF ~Has(r, nodeId) THEN Ret(r, FALSE, NULL, "Node not found")
  ELSE IF FindById(r, nodeId).parentId = NULL
  THEN Ret(r, FALSE, NULL, "Cannot delete root node")
  ELSE IF HasChildren(r, nodeId)
  THEN Ret(r, FALSE, NULL, "Node has children")
  ELSE Ret(Delete(r, nodeId), TRUE, NULL, "")

\* the repository after deleteNodeWithChildren(nodeId); the children are
\* read before any of them is deleted
RECURSIVE DeleteSubtree(_, _)
RECURSIVE DeleteEach(_, _)
DeleteEach(r, children) ==
  IF children = <<>> THEN r
  ELSE DeleteEach(DeleteSubtree(r, children[1].id), Tail(children))
\* (mutant: only the children and the node are deleted)
DeleteSubtreeMutant(r, nodeId) ==
  Delete(SelectSeq(r, LAMBDA n : n.parentId # nodeId), nodeId)
DeleteSubtree(r, nodeId) ==
  Delete(DeleteEach(r, GetChildren(r, nodeId)), nodeId)

\* (mutant: the cascade deletes what is below a root and keeps the root)
DeleteNodeWithChildrenMutant(r, nodeId) ==
  IF IsRootNode(r, nodeId)
  THEN Ret(DeleteEach(r, GetChildren(r, nodeId)), TRUE, NULL, "")
  ELSE Ret(DeleteSubtree(r, nodeId), TRUE, NULL, "")
DeleteNodeWithChildren(r, nodeId) ==
  Ret(DeleteSubtree(r, nodeId), TRUE, NULL, "")

\* deleteNodeWithChildren step by step: the repository after each
\* repository.delete the call makes, in the order it makes them
RECURSIVE DeleteSubtreeTrace(_, _)
RECURSIVE DeleteEachTrace(_, _)
DeleteEachTrace(r, children) ==
  IF children = <<>> THEN <<>>
  ELSE LET first == DeleteSubtreeTrace(r, children[1].id)
       IN first \o DeleteEachTrace(first[Len(first)], Tail(children))
\* (mutant: the node is deleted before its children)
DeleteSubtreeTraceMutant(r, nodeId) ==
  <<Delete(r, nodeId)>>
    \o DeleteEachTrace(Delete(r, nodeId), GetChildren(r, nodeId))
DeleteSubtreeTrace(r, nodeId) ==
  LET below == DeleteEachTrace(r, GetChildren(r, nodeId))
      r1 == IF below = <<>> THEN r ELSE below[Len(below)]
  IN Append(below, Delete(r1, nodeId))

DeleteChildren(r, nodeId) ==
  Ret(DeleteEach(r, GetChildren(r, nodeId)), TRUE, NULL, "")

\* (mutant: a root is created whether or not there is one)
EnsureRootExistsMutant(r, id) == CreateNode(r, id, "Root", NULL)
\* id is the identifier generateId would return
EnsureRootExists(r, id) ==
  IF GetRootNode(r) # NULL THEN Ret(r, TRUE, GetRootNode(r), "")
  ELSE CreateNode(r, id, "Root", NULL)

\* no item stored, no persistent repository constructed
InitStorageIdle ==
  /\ storedItem = [tag |-> "absent", nodes |-> <<>>]
  /\ lsNodes = <<>>
  /\ lsCall = [op |-> "init", raised |-> FALSE]

\* nothing rendered yet: no nodes handed over, no boxes computed
InitLayoutIdle ==
  /\ layoutNodes = <<>>
  /\ layout = <<>>

\* the palette as the uiStore and the component's useState calls start it
InitPaletteClosed ==
  /\ isCommandPaletteOpen = FALSE
  /\ query = ""
  /\ selectedIndex = 0
  /\ paletteSteps = <<>>

\* uiStore after create()
InitUI == uiMode = "normal"

\* no key event dispatched yet, nothing queued
InitLoopIdle ==
  /\ keyEvents = 0
  /\ effects = <<>>
  /\ inFlight = {}
  /\ jobs = <<>>
  /\ tasks = <<>>
  /\ lastAccess = [ev |-> 0, step |-> "none"]

\* input/modeManager after createModeManager()
InitModeManager ==
  /\ currentMode = "normal"
  /\ listeners = <<>>
  /\ handles = {}
  /\ modeCall = [op |-> "init", handler |-> NULL]
  /\ notified = <<>>

InitServiceIdle ==
  /\ repo = <<>>
  /\ nextId = 1
  /\ lastCall = [op |-> "init", id |-> NULL, parentId |-> NULL]
  /\ callResult = [ok |-> TRUE, value |-> NULL, error |-> ""]

InitStoreIdle ==
  /\ storeNodes = <<>>
  /\ selectedNodeId = NULL
  /\ serviceSet = FALSE

NextEngine ==
  \/ KeyDown /\ UNCHANGED notEngineVars
  \/ Timeout /\ UNCHANGED notEngineVars
  \/ SetContext /\ UNCHANGED notEngineVars
  \/ SetModifiers /\ UNCHANGED notEngineVars
  \/ SetFocus /\ UNCHANGED notEngineVars

EngineInit ==
  InitEngine /\ InitServiceIdle /\ InitStoreIdle /\ InitModeManager
  /\ InitLoopIdle /\ InitUI /\ InitStorageIdle /\ InitLayoutIdle
  /\ InitPaletteClosed

SpecEngine == EngineInit /\ [][NextEngine]_vars

\* The engine under the browser's timers: a timer that stays scheduled has
\* its callback run, so a pending timeout fires unless it is cleared first.
SpecEngineLive ==
  EngineInit /\ [][NextEngine]_vars /\ WF_vars(Timeout /\ UNCHANGED notEngineVars)

\* C31: whenever the engine is buffering, the pending timeout eventually
\* fires or a key ends the sequence, and the engine is idle again: it never
\* stays buffering forever
C31_BufferingEnds == Buffering ~> Idle

\* C31 witness: the timeout fired while the focus was in a text field, whose
\* key events leave a buffer alone, and the engine is idle
C31_Witness ==
  /\ lastOp = "timeout"
  /\ focus = "textarea"
  /\ keyBuffer = <<>>
  /\ timeoutId = NULL
  /\ timers = {}

(***************************************************************************)
(* The mutation service called directly, as its tests call it              *)
(***************************************************************************)
MaxIds == 4
NodeIds == 1..MaxIds

ExistingIds(r) == {r[i].id : i \in 1..Len(r)}

InitEngineIdle ==
  /\ commands = DefaultCommands
  /\ isMac = FALSE
  /\ keyBuffer = <<>>
  /\ timeoutId = NULL
  /\ timers = {}
  /\ context = [mode |-> "normal", selectedNodeId |-> NULL,
                hasNodes |-> FALSE, isSelectedNodeRoot |-> FALSE]
  /\ metaHeld = FALSE
  /\ ctrlHeld = FALSE
  /\ focus = "body"
  /\ lastOp = "init"
  /\ lastEvent = NoEvent
  /\ handled = FALSE
  /\ executed = <<>>
  /\ calls = <<>>
  /\ raised = FALSE

\* the effect of a service call that returned ret; generateId ran when the
\* call returned a node that was not stored before
Returned(op, id, parentId, ret) ==
  /\ repo' = ret.repo
  /\ nextId' = IF ret.value = nextId THEN nextId + 1 ELSE nextId
  /\ lastCall' = [op |-> op, id |-> id, parentId |-> parentId]
  /\ callResult' = [ok |-> ret.ok, value |-> ret.value, error |-> ret.error]

\* generateId has an identifier left to hand out
CanGenerate(ret) == ret.value = nextId => nextId <= MaxIds

CallCreateNode ==
  \E parentId \in ExistingIds(repo) \cup {NULL} :
    LET ret == CreateNode(repo, nextId, "New Node", parentId)
    IN CanGenerate(ret) /\ Returned("createNode", NULL, parentId, ret)

CallCreateSiblingAbove ==
  \E id \in NodeIds :
    LET ret == CreateSiblingAbove(repo, nextId, id, "New Node")
    IN CanGenerate(ret) /\ Returned("createSiblingAbove", id, NULL, ret)

CallCreateSiblingBelow ==
  \E id \in NodeIds :
    LET ret == CreateSiblingBelow(repo, nextId, id, "New Node")
    IN CanGenerate(ret) /\ Returned("createSiblingBelow", id, NULL, ret)

CallInsertBetweenParentAndChild ==
  \E id \in NodeIds :
    LET ret == InsertBetweenParentAndChild(repo, nextId, id, "New Node")
    IN CanGenerate(ret)
       /\ Returned("insertBetweenParentAndChild", id, NULL, ret)

CallUpdateContent ==
  \E id \in NodeIds :
    Returned("updateContent", id, NULL, UpdateContent(repo, id, "Edited"))

CallDeleteNode ==
  \E id \in NodeIds :
    Returned("deleteNode", id, NULL, DeleteNode(repo, id))

CallDeleteNodeWithChildren ==
  \E id \in NodeIds :
    Returned("deleteNodeWithChildren", id, NULL,
             DeleteNodeWithChildren(repo, id))

CallDeleteChildren ==
  \E id \in NodeIds :
    Returned("deleteChildren", id, NULL, DeleteChildren(repo, id))

CallEnsureRootExists ==
  LET ret == EnsureRootExists(repo, nextId)
  IN CanGenerate(ret) /\ Returned("ensureRootExists", NULL, NULL, ret)

NextService ==
  \/ CallCreateNode /\ UNCHANGED notServiceVars
  \/ CallCreateSiblingAbove /\ UNCHANGED notServiceVars
  \/ CallCreateSiblingBelow /\ UNCHANGED notServiceVars
  \/ CallInsertBetweenParentAndChild /\ UNCHANGED notServiceVars
  \/ CallUpdateContent /\ UNCHANGED notServiceVars
  \/ CallDeleteNode /\ UNCHANGED notServiceVars
  \/ CallDeleteNodeWithChildren /\ UNCHANGED notServiceVars
  \/ CallDeleteChildren /\ UNCHANGED notServiceVars
  \/ CallEnsureRootExists /\ UNCHANGED notServiceVars

ServiceInit ==
  InitEngineIdle /\ InitServiceIdle /\ InitStoreIdle /\ InitModeManager
  /\ InitLoopIdle /\ InitUI /\ InitStorageIdle /\ InitLayoutIdle
  /\ InitPaletteClosed

SpecService == ServiceInit /\ [][NextService]_vars

(***************************************************************************)
(* Properties of the mutation service                                      *)
(***************************************************************************)
NodesOf(r) == {r[i] : i \in 1..Len(r)}

Roots(r) == {n \in NodesOf(r) : n.parentId = NULL}

\* C7: deleteNode(id) succeeds, removing just that node, exactly when id
\* names a stored node that has a parent and no children; otherwise it fails
\* with "Node not found", "Cannot delete root node" (also for a root with
\* children) or "Node has children", and the collection is unchanged.
C7_DeleteNodeContract ==
  [][lastCall'.op = "deleteNode" =>
       LET id == lastCall'.id
           stored == {n \in NodesOf(repo) : n.id = id}
           isRoot == \E n \in stored : n.parentId = NULL
           parentOfSome == \E n \in NodesOf(repo) : n.parentId = id
       IN IF stored # {} /\ ~isRoot /\ ~parentOfSome
          THEN /\ callResult'.ok
               /\ repo' = SelectSeq(repo, LAMBDA n : n.id # id)
          ELSE /\ ~callResult'.ok
               /\ repo' = repo
               /\ callResult'.error =
                    IF stored = {} THEN "Node not found"
                    ELSE IF isRoot THEN "Cannot delete root node"
                    ELSE "Node has children"
  ]_vars

\* C7 witness: deleteNode on a root that has children was refused
C7_Witness ==
  /\ lastCall.op = "deleteNode"
  /\ \E n \in Roots(repo) : n.id = lastCall.id
  /\ \E n \in NodesOf(repo) : n.parentId = lastCall.id
  /\ ~callResult.ok
  /\ callResult.error = "Cannot delete root node"

\* C9 as stated: at most one node has a null parentId.
C9_AtMostOneRoot == Cardinality(Roots(repo)) <= 1

\* C9 amended: every service call other than a createNode with a null parent
\* made while a root exists leaves at most one node with a null parentId;
\* ensureRootExists in particular never adds a second root.
C9_OnlyCreateNodeAddsRoot ==
  [][(/\ Cardinality(Roots(repo)) <= 1
      /\ ~(/\ lastCall'.op = "createNode"
           /\ lastCall'.parentId = NULL
           /\ Roots(repo) # {}))
     => /\ Cardinality(Roots(repo')) <= 1
        /\ (lastCall'.op = "ensureRootExists" =>
              /\ Cardinality(Roots(repo')) = 1
              /\ (Roots(repo) # {} => repo' = repo))
  ]_vars

\* C9 witness: ensureRootExists found the root of a tree of several nodes
C9_Witness ==
  /\ lastCall.op = "ensureRootExists"
  /\ Len(repo) >= 2
  /\ Cardinality(Roots(repo)) = 1
  /\ \E n \in Roots(repo) : callResult.value = n.id

\* following parentId from the node with this id reaches a null parentId
\* within fuel steps
RECURSIVE ReachesRoot(_, _, _)
ReachesRoot(r, id, fuel) ==
  LET stored == {n \in NodesOf(r) : n.id = id}
  IN /\ stored # {}
     /\ \A n \in stored :
          \/ n.parentId = NULL
          \/ fuel > 0 /\ ReachesRoot(r, n.parentId, fuel - 1)

C11_SiblingOrdersDistinct ==
  \A a, b \in NodesOf(repo) :
    (a.id # b.id /\ a.parentId = b.parentId) => a.order # b.order

\* C11 witness: createSiblingAbove has put a node among three siblings
C11_Witness ==
  /\ lastCall.op = "createSiblingAbove"
  /\ callResult.value # NULL
  /\ \E p \in NodesOf(repo) :
       Cardinality({n \in NodesOf(repo) : n.parentId = p.id}) = 3

\* the list with x put in right after position k
InsertedAt(s, k, x) == SubSeq(s, 1, k) \o <<x>> \o SubSeq(s, k + 1, Len(s))

\* the position of x in a sequence without repetitions
PositionOf(s, x) == CHOOSE i \in 1..Len(s) : s[i] = x

\* C12: for a stored anchor with a parent, createSiblingBelow returns a new
\* node that the children-query of the parent lists right after the anchor
\* and createSiblingAbove one it lists right before, the other siblings
\* keeping their relative order; for an anchor without parent both return
\* null and leave the collection as it was.
C12_SiblingPlacement ==
  [][lastCall'.op \in {"createSiblingBelow", "createSiblingAbove"} =>
       \A anchor \in {n \in NodesOf(repo) : n.id = lastCall'.id} :
         IF anchor.parentId = NULL
         THEN callResult'.value = NULL /\ repo' = repo
         ELSE LET before == Ids(FindByParentId(repo, anchor.parentId))
                  after == Ids(FindByParentId(repo', anchor.parentId))
                  k == PositionOf(before, anchor.id)
                  new == callResult'.value
              IN /\ new # NULL
                 /\ new \notin {n.id : n \in NodesOf(repo)}
                 /\ Len(repo') = Len(repo) + 1
                 /\ after = IF lastCall'.op = "createSiblingBelow"
                            THEN InsertedAt(before, k, new)
                            ELSE InsertedAt(before, k - 1, new)
  ]_vars

\* C12 witness: createSiblingBelow has put the new node between the anchor
\* and the sibling that followed it
C12_Witness ==
  /\ lastCall.op = "createSiblingBelow"
  /\ callResult.value # NULL
  /\ \E n \in NodesOf(repo) :
       /\ n.id = lastCall.id
       /\ LET ids == Ids(FindByParentId(repo, n.parentId))
          IN \E i \in 1..(Len(ids) - 2) :
               /\ ids[i] = lastCall.id
               /\ ids[i + 1] = callResult.value

\* C13: insertBetweenParentAndChild on a stored child with a parent adds one
\* node with the child's former parentId and order, gives the child the new
\* node as parent and order 0 and changes no other node; on a node without
\* parent it returns null and leaves the collection as it was.
C13_InsertBetween ==
  [][lastCall'.op = "insertBetweenParentAndChild" =>
       \A child \in {n \in NodesOf(repo) : n.id = lastCall'.id} :
         IF child.parentId = NULL
         THEN callResult'.value = NULL /\ repo' = repo
         ELSE LET new == callResult'.value
              IN /\ new # NULL
                 /\ new \notin {n.id : n \in NodesOf(repo)}
                 /\ Len(repo') = Len(repo) + 1
                 /\ \E n \in NodesOf(repo') :
                      /\ n.id = new
                      /\ n.parentId = child.parentId
                      /\ n.order = child.order
                 /\ [child EXCEPT !.parentId = new, !.order = 0]
                      \in NodesOf(repo')
                 /\ \A n \in NodesOf(repo) : n.id # child.id => n \in NodesOf(repo')
  ]_vars

\* C13 witness: a node has taken the place of a second child
C13_Witness ==
  /\ lastCall.op = "insertBetweenParentAndChild"
  /\ \E n, c \in NodesOf(repo) :
       /\ n.id = callResult.value
       /\ n.order >= 1
       /\ c.id = lastCall.id
       /\ c.parentId = n.id
       /\ c.order = 0

\* the node with this id, or an ancestor of it within fuel steps, is top
RECURSIVE InSubtree(_, _, _, _)
InSubtree(r, top, id, fuel) ==
  \/ id = top
  \/ /\ fuel > 0
     /\ \E n \in NodesOf(r) :
          n.id = id /\ n.parentId # NULL /\ InSubtree(r, top, n.parentId, fuel - 1)

\* C14: deleteNodeWithChildren(id) removes the node id and its descendants
\* and leaves every other node stored as it was, in the same sequence.
C14_CascadeDeletesSubtreeOnly ==
  [][lastCall'.op = "deleteNodeWithChildren" =>
       repo' = SelectSeq(repo,
                 LAMBDA n : ~InSubtree(repo, lastCall'.id, n.id, Len(repo)))
  ]_vars

\* C14 witness: a cascading delete has removed a stored node and left at
\* least a root and one of its children
C14_Witness ==
  /\ lastCall.op = "deleteNodeWithChildren"
  /\ lastCall.id < nextId
  /\ ~\E n \in NodesOf(repo) : n.id = lastCall.id
  /\ \E a, b \in NodesOf(repo) : a.parentId = NULL /\ b.parentId = a.id

\* every node of r has its parent in r
ParentsStored(r) ==
  \A n \in NodesOf(r) :
    n.parentId = NULL \/ \E m \in NodesOf(r) : m.id = n.parentId

\* C33: deleteNodeWithChildren deletes in post-order: a node goes only when
\* none of its children is left, so after each single deletion of the
\* cascade every remaining node still has its parent, and the last of these
\* repositories is the one the call leaves.
C33_CascadeIsPostOrder ==
  [][lastCall'.op = "deleteNodeWithChildren" =>
       LET trace == DeleteSubtreeTrace(repo, lastCall'.id)
           before == [k \in 1..Len(trace) |->
                        IF k = 1 THEN repo ELSE trace[k - 1]]
       IN /\ trace[Len(trace)] = repo'
          /\ \A k \in 1..Len(trace) :
               /\ Len(trace[k]) >= Len(before[k]) - 1
               /\ ParentsStored(before[k]) => ParentsStored(trace[k])
               /\ \A n \in NodesOf(before[k]) :
                    n \notin NodesOf(trace[k]) =>
                      ~\E m \in NodesOf(before[k]) : m.parentId = n.id
  ]_vars

\* C33 witness: a cascading delete on a node other than the root has run
\* when all identifiers were used, and only the root is left
C33_Witness ==
  /\ lastCall.op = "deleteNodeWithChildren"
  /\ nextId = MaxIds + 1
  /\ Len(repo) = 1
  /\ repo[1].parentId = NULL
  /\ lastCall.id # repo[1].id
  /\ lastCall.id # NULL


\* the stored nodes that have a parent
NonRootIds(r) == {n.id : n \in {m \in NodesOf(r) : m.parentId # NULL}}

\* C38: for every stored non-root node x, a non-null next sibling y of x has
\* x as its previous sibling, a non-null previous sibling y of x has x as
\* its next sibling, and a non-null first child c of x has x as its parent
C38_SiblingQueriesInverse ==
  \A x \in NonRootIds(repo) :
    /\ LET y == GetNextSiblingId(repo, x)
       IN y # NULL => GetPreviousSiblingId(repo, y) = x
    /\ LET y == GetPreviousSiblingId(repo, x)
       IN y # NULL => GetNextSiblingId(repo, y) = x
    /\ LET c == GetFirstChildId(repo, x)
       IN c # NULL => GetParentId(repo, c) = x

\* C38 witness: three siblings: the middle one has a previous sibling, which
\* is the first child of their parent, and a different next sibling
C38_Witness ==
  \E x \in NonRootIds(repo) :
    /\ GetNextSiblingId(repo, x) # NULL
    /\ GetPreviousSiblingId(repo, x) # NULL
    /\ GetNextSiblingId(repo, x) # GetPreviousSiblingId(repo, x)
    /\ GetFirstChildId(repo, GetParentId(repo, x)) = GetPreviousSiblingId(repo, x)


(***************************************************************************)
(* stores/nodeStore and the navigation callbacks of useKeyboardShortcuts.  *)
(* Every call runs to completion before the next one starts.               *)
(***************************************************************************)
MaxStoreIds == 3

\* set({...}) after a store call: the repository, the snapshot and the
\* selection it leaves, and what it returned
StoreReturned(op, id, r, nodes, selected, ok, value, error) ==
  /\ repo' = r
  /\ nextId' = IF value = nextId THEN nextId + 1 ELSE nextId
  /\ storeNodes' = nodes
  /\ selectedNodeId' = selected
  /\ lastCall' = [op |-> op, id |-> id, parentId |-> NULL]
  /\ callResult' = [ok |-> ok, value |-> value, error |-> error]
  /\ UNCHANGED serviceSet

\* a store call that returns before it changes anything
StoreReturnedEarly(op, id, ok, error) ==
  StoreReturned(op, id, repo, storeNodes, selectedNodeId, ok, NULL, error)

\* generateId has an identifier left to hand out
StoreCanGenerate == nextId <= MaxStoreIds

Initialize ==
  /\ ~serviceSet
  /\ serviceSet' = TRUE
  /\ storeNodes' = FindAll(repo)
  /\ selectedNodeId' = GetRootNode(FindAll(repo))
  /\ lastCall' = [op |-> "initialize", id |-> NULL, parentId |-> NULL]
  /\ UNCHANGED <<repo, nextId, callResult>>

\* the ids a caller can name: those of the nodes the store shows
ShownIds == ExistingIds(storeNodes)

SelectNode ==
  \E id \in ShownIds :
    StoreReturned("selectNode", id, repo, storeNodes, id, TRUE, NULL, "")

RefreshNodes ==
  IF ~serviceSet THEN StoreReturnedEarly("refreshNodes", NULL, TRUE, "")
  ELSE StoreReturned("refreshNodes", NULL, repo, FindAll(repo),
                     selectedNodeId, TRUE, NULL, "")

CreateRootNode ==
  IF ~serviceSet \/ \E i \in 1..Len(storeNodes) : storeNodes[i].parentId = NULL
  THEN StoreReturnedEarly("createRootNode", NULL, TRUE, "")
  ELSE LET ret == CreateNode(repo, nextId, "Root", NULL)
       IN /\ StoreCanGenerate
          /\ StoreReturned("createRootNode", NULL, ret.repo, FindAll(ret.repo),
                           ret.value, TRUE, ret.value, "")

CreateChildNodeOf(parentId) ==
    IF ~serviceSet
    THEN StoreReturnedEarly("createChildNode", parentId, FALSE,
                            "throw: Service not initialized")
    ELSE LET ret == CreateNode(repo, nextId, "New Node", parentId)
         IN /\ StoreCanGenerate
            /\ StoreReturned("createChildNode", parentId, ret.repo,
                             FindAll(ret.repo), ret.value, TRUE, ret.value, "")

CreateChildNode == \E parentId \in ShownIds : CreateChildNodeOf(parentId)

\* the store calls that hand a node id to a service call creating a node
\* and select the node it returns, when it returns one
StoreCreate(op, id, ret) ==
  IF ~serviceSet \/ ret.value = NULL
  THEN StoreReturnedEarly(op, id, TRUE, "")
  ELSE /\ StoreCanGenerate
       /\ StoreReturned(op, id, ret.repo, FindAll(ret.repo), ret.value,
                        TRUE, ret.value, "")

StoreCreateSiblingAboveOf(id) ==
  StoreCreate("createSiblingAbove", id,
              CreateSiblingAbove(repo, nextId, id, "New Node"))

StoreCreateSiblingAbove == \E id \in ShownIds : StoreCreateSiblingAboveOf(id)

StoreCreateSiblingBelowOf(id) ==
  StoreCreate("createSiblingBelow", id,
              CreateSiblingBelow(repo, nextId, id, "New Node"))

StoreCreateSiblingBelow == \E id \in ShownIds : StoreCreateSiblingBelowOf(id)

StoreInsertBetweenParentAndChild ==
  \E id \in ShownIds :
    StoreCreate("insertBetweenParentAndChild", id,
                InsertBetweenParentAndChild(repo, nextId, id, "New Node"))

UpdateNodeContent ==
  \E id \in ShownIds :
    IF ~serviceSet THEN StoreReturnedEarly("updateNodeContent", id, TRUE, "")
    ELSE LET ret == UpdateContent(repo, id, "Edited")
         IN StoreReturned("updateNodeContent", id, ret.repo, FindAll(ret.repo),
                          selectedNodeId, ret.ok, NULL, ret.error)

\* siblings[0]?.id ?? parent?.id ?? null
\* (mutant: the parent is selected even when a sibling remains)
SelectionAfterDeleteMutant(r, id) == GetParent(r, id)
SelectionAfterDelete(r, id) ==
  IF GetSiblings(r, id) # <<>> THEN GetSiblings(r, id)[1].id
  ELSE GetParent(r, id)

StoreDeleteNodeOf(id) ==
    IF ~serviceSet
    THEN StoreReturnedEarly("deleteNode", id, FALSE, "Service not initialized")
    ELSE LET ret == DeleteNode(repo, id)
         IN IF ~ret.ok
            THEN StoreReturnedEarly("deleteNode", id, FALSE, ret.error)
            ELSE StoreReturned("deleteNode", id, ret.repo, FindAll(ret.repo),
                               SelectionAfterDelete(repo, id), TRUE, NULL, "")

StoreDeleteNode == \E id \in ShownIds : StoreDeleteNodeOf(id)

StoreDeleteNodeWithChildrenOf(id) ==
    IF ~serviceSet
    THEN StoreReturnedEarly("deleteNodeWithChildren", id, TRUE, "")
    ELSE LET ret == DeleteNodeWithChildren(repo, id)
         IN StoreReturned("deleteNodeWithChildren", id, ret.repo,
                          FindAll(ret.repo), SelectionAfterDelete(repo, id),
                          TRUE, NULL, "")

StoreDeleteNodeWithChildren ==
  \E id \in ShownIds : StoreDeleteNodeWithChildrenOf(id)

StoreDeleteChildren ==
  \E id \in ShownIds :
    IF ~serviceSet THEN StoreReturnedEarly("deleteChildren", id, TRUE, "")
    ELSE LET ret == DeleteChildren(repo, id)
         IN StoreReturned("deleteChildren", id, ret.repo, FindAll(ret.repo),
                          selectedNodeId, TRUE, NULL, "")

\* a navigation callback: select what the service query names, if anything
Navigate(op, target) ==
  IF ~serviceSet \/ selectedNodeId = NULL \/ target = NULL
  THEN StoreReturnedEarly(op, NULL, TRUE, "")
  ELSE StoreReturned(op, NULL, repo, storeNodes, target, TRUE, NULL, "")

NavigateToParent ==
  Navigate("navigateToParent", GetParentId(repo, selectedNodeId))

NavigateToFirstChild ==
  Navigate("navigateToFirstChild", GetFirstChildId(repo, selectedNodeId))

NavigateToNextSibling ==
  Navigate("navigateToNextSibling", GetNextSiblingId(repo, selectedNodeId))

NavigateToPreviousSibling ==
  Navigate("navigateToPreviousSibling",
           GetPreviousSiblingId(repo, selectedNodeId))

NextStore ==
  \/ Initialize /\ UNCHANGED notStoreVars
  \/ SelectNode /\ UNCHANGED notStoreVars
  \/ RefreshNodes /\ UNCHANGED notStoreVars
  \/ CreateRootNode /\ UNCHANGED notStoreVars
  \/ CreateChildNode /\ UNCHANGED notStoreVars
  \/ StoreCreateSiblingAbove /\ UNCHANGED notStoreVars
  \/ StoreCreateSiblingBelow /\ UNCHANGED notStoreVars
  \/ StoreInsertBetweenParentAndChild /\ UNCHANGED notStoreVars
  \/ UpdateNodeContent /\ UNCHANGED notStoreVars
  \/ StoreDeleteNode /\ UNCHANGED notStoreVars
  \/ StoreDeleteNodeWithChildren /\ UNCHANGED notStoreVars
  \/ StoreDeleteChildren /\ UNCHANGED notStoreVars
  \/ NavigateToParent /\ UNCHANGED notStoreVars
  \/ NavigateToFirstChild /\ UNCHANGED notStoreVars
  \/ NavigateToNextSibling /\ UNCHANGED notStoreVars
  \/ NavigateToPreviousSibling /\ UNCHANGED notStoreVars

StoreInit ==
  InitEngineIdle /\ InitServiceIdle /\ InitStoreIdle /\ InitModeManager
  /\ InitLoopIdle /\ InitUI /\ InitStorageIdle /\ InitLayoutIdle
  /\ InitPaletteClosed

SpecStore == StoreInit /\ [][NextStore]_vars

\* C8 as stated: the selected node id is null or the id of a stored node.
C8_SelectionNeverDangles ==
  selectedNodeId = NULL \/ \E n \in NodesOf(repo) : n.id = selectedNodeId

\* C8 witness: the store's deleteChildren has removed the selected node
\* with the other children of the node it was given
C8_Witness ==
  /\ lastCall.op = "deleteChildren"
  /\ serviceSet
  /\ storeNodes = repo
  /\ selectedNodeId # NULL
  /\ selectedNodeId # lastCall.id
  /\ ~Has(repo, selectedNodeId)

\* the ids of the nodes of r that have the parent the node id has, id apart
SiblingIdsOf(r, id) ==
  {n.id : n \in {m \in NodesOf(r) :
                   /\ m.id # id
                   /\ \E d \in NodesOf(r) : d.id = id /\ d.parentId = m.parentId}}

\* the parent id of the node id in r
ParentIdsOf(r, id) == {d.parentId : d \in {m \in NodesOf(r) : m.id = id}}

\* C20: after a store deleteNode that succeeded, the repository and the
\* snapshot hold exactly the nodes held before without the deleted one,
\* which was a childless non-root node, and the selection is a remaining
\* sibling of it if it had one, its parent otherwise.
C20_LeafDeleteSelection ==
  [][(lastCall'.op = "deleteNode" /\ callResult'.ok) =>
       /\ Len(repo') = Len(repo) - 1
       /\ repo' = SelectSeq(repo, LAMBDA n : n.id # lastCall'.id)
       /\ storeNodes' = repo'
       /\ \A n \in NodesOf(repo) : n.parentId # lastCall'.id
       /\ NULL \notin ParentIdsOf(repo, lastCall'.id)
       /\ IF SiblingIdsOf(repo, lastCall'.id) # {}
          THEN /\ selectedNodeId' \in SiblingIdsOf(repo, lastCall'.id)
               /\ \E n \in NodesOf(repo') : n.id = selectedNodeId'
          ELSE selectedNodeId' \in ParentIdsOf(repo, lastCall'.id)
  ]_vars

\* C20 witness: one of the two leaves under the root was deleted; the
\* remaining leaf is selected
C20_Witness ==
  /\ lastCall.op = "deleteNode"
  /\ callResult.ok
  /\ Len(repo) = 2
  /\ repo[1].parentId = NULL
  /\ repo[2].parentId = repo[1].id
  /\ selectedNodeId = repo[2].id
  /\ lastCall.id \notin {repo[1].id, repo[2].id}

\* C26: through the store, deleteNode on a root without children succeeds,
\* leaving zero nodes and a null selection
C26_StoreDeletesChildlessRoot ==
  [][(/\ lastCall'.op = "deleteNode"
      /\ serviceSet
      /\ \E n \in NodesOf(repo) : n.id = lastCall'.id /\ n.parentId = NULL
      /\ \A n \in NodesOf(repo) : n.parentId # lastCall'.id)
     => /\ callResult'.ok
        /\ storeNodes' = <<>>
        /\ selectedNodeId' = NULL
  ]_vars

\* C26 witness: deleteNode was called on the only node, a root, and came
\* back refused; the root is still there and still selected
C26_Witness ==
  /\ lastCall.op = "deleteNode"
  /\ serviceSet
  /\ Len(repo) = 1
  /\ repo[1].parentId = NULL
  /\ lastCall.id = repo[1].id
  /\ ~callResult.ok
  /\ callResult.error = "Cannot delete root node"
  /\ storeNodes = repo
  /\ selectedNodeId = repo[1].id

(***************************************************************************)
(* input/modeManager.  Handlers are told apart by a number; a handler does *)
(* nothing but record that it was called.                                  *)
(***************************************************************************)
MaxHandlers == 3
Handlers == 1..MaxHandlers

\* Set.prototype.add: a member keeps its place, a new one goes last
SetAdd(set, h) ==
  IF \E i \in 1..Len(set) : set[i] = h THEN set ELSE Append(set, h)

\* Set.prototype.delete
SetDelete(set, h) == SelectSeq(set, LAMBDA x : x # h)

\* (mutant: the handlers are called last to first)
NotifyMutant(set, mode) ==
  [i \in 1..Len(set) |-> [handler |-> set[Len(set) + 1 - i], mode |-> mode]]
\* notify: listeners.forEach((fn) => fn(currentMode))
Notify(set, mode) == [i \in 1..Len(set) |-> [handler |-> set[i], mode |-> mode]]

\* (mutant: the mode is set and notified without looking at it)
SwitchModeMutant(mode, set, to) == [mode |-> to, notified |-> Notify(set, to)]
\* enterInsertMode (to = "insert") and exitInsertMode (to = "normal")
SwitchMode(mode, set, to) ==
  IF mode # to THEN [mode |-> to, notified |-> Notify(set, to)]
  ELSE [mode |-> mode, notified |-> <<>>]

EnterInsertMode ==
  LET r == SwitchMode(currentMode, listeners, "insert")
  IN /\ currentMode' = r.mode
     /\ notified' = r.notified
     /\ modeCall' = [op |-> "enterInsertMode", handler |-> NULL]
     /\ UNCHANGED <<listeners, handles>>

ExitInsertMode ==
  LET r == SwitchMode(currentMode, listeners, "normal")
  IN /\ currentMode' = r.mode
     /\ notified' = r.notified
     /\ modeCall' = [op |-> "exitInsertMode", handler |-> NULL]
     /\ UNCHANGED <<listeners, handles>>

OnModeChange ==
  \E h \in Handlers :
    /\ listeners' = SetAdd(listeners, h)
    /\ handles' = handles \cup {h}
    /\ modeCall' = [op |-> "onModeChange", handler |-> h]
    /\ notified' = <<>>
    /\ UNCHANGED currentMode

\* a handle returned by onModeChange is called
Unsubscribe ==
  \E h \in handles :
    /\ listeners' = SetDelete(listeners, h)
    /\ modeCall' = [op |-> "unsubscribe", handler |-> h]
    /\ notified' = <<>>
    /\ UNCHANGED <<currentMode, handles>>

NextMode ==
  \/ EnterInsertMode /\ UNCHANGED notModeVars
  \/ ExitInsertMode /\ UNCHANGED notModeVars
  \/ OnModeChange /\ UNCHANGED notModeVars
  \/ Unsubscribe /\ UNCHANGED notModeVars

ModeInit ==
  InitEngineIdle /\ InitServiceIdle /\ InitStoreIdle /\ InitModeManager
  /\ InitLoopIdle /\ InitUI /\ InitStorageIdle /\ InitLayoutIdle
  /\ InitPaletteClosed

SpecMode == ModeInit /\ [][NextMode]_vars

\* the handlers a sequence of handler calls has called
Called(ns) == {ns[i].handler : i \in 1..Len(ns)}

\* the members of a sequence
Members(set) == {set[i] : i \in 1..Len(set)}

\* C15: enterInsertMode in insert mode and exitInsertMode in normal mode
\* change neither the mode nor the listeners and call no handler; an
\* enterInsertMode from normal mode calls every listener once, so that two
\* in a row call every listener once in all.
C15_ModeCallsIdempotent ==
  [][/\ (\/ modeCall'.op = "enterInsertMode" /\ currentMode = "insert"
         \/ modeCall'.op = "exitInsertMode" /\ currentMode = "normal")
        => /\ currentMode' = currentMode
           /\ listeners' = listeners
           /\ notified' = <<>>
     /\ (modeCall'.op = "enterInsertMode" /\ currentMode = "normal")
        => /\ currentMode' = "insert"
           /\ Len(notified') = Len(listeners)
           /\ \A h \in Members(listeners) :
                Cardinality({i \in 1..Len(notified') :
                               notified'[i].handler = h}) = 1
     /\ (modeCall.op = "enterInsertMode" /\ modeCall'.op = "enterInsertMode")
        => notified' = <<>>
  ]_vars

\* C15 witness: an enterInsertMode in insert mode has called none of the
\* two listeners
C15_Witness ==
  /\ modeCall.op = "enterInsertMode"
  /\ currentMode = "insert"
  /\ Len(listeners) = 2
  /\ notified = <<>>

\* C16: a call that changes the mode calls each listener once with the new
\* mode, in the order the listeners were subscribed in; a call that does
\* not change it calls none; subscribing a new handler puts it last;
\* calling the handle of a handler removes that handler and no other, and a
\* removed handler is not called until it is subscribed again.
C16_ListenersNotifiedInOrder ==
  [][/\ currentMode' # currentMode
        => notified' = [i \in 1..Len(listeners) |->
                          [handler |-> listeners[i], mode |-> currentMode']]
     /\ currentMode' = currentMode => notified' = <<>>
     /\ Called(notified') \subseteq Members(listeners)
     /\ modeCall'.op = "onModeChange"
        => listeners' = IF modeCall'.handler \in Members(listeners)
                        THEN listeners
                        ELSE listeners \o <<modeCall'.handler>>
     /\ modeCall'.op = "unsubscribe"
        => listeners' = SelectSeq(listeners, LAMBDA x : x # modeCall'.handler)
     /\ modeCall'.op \in {"enterInsertMode", "exitInsertMode"}
        => listeners' = listeners
  ]_vars

\* C16 witness: a mode change has called two listeners, subscribed in the
\* order 2, 3, after the handle of handler 1 was called
C16_Witness ==
  /\ modeCall.op = "exitInsertMode"
  /\ 1 \in handles
  /\ listeners = <<2, 3>>
  /\ notified = <<[handler |-> 2, mode |-> "normal"],
                  [handler |-> 3, mode |-> "normal"]>>


(***************************************************************************)
(* The store calls of the command context on the event loop.  A store      *)
(* call is the sequence of repository calls and store updates it makes,    *)
(* one per await; the first runs inside the call, each later one when the  *)
(* awaited promise has settled.                                            *)
(***************************************************************************)
MaxKeyEvents == 3

\* the repository calls and the final set() of each store function, in the
\* order the awaits of nodeStore and mindMapService make them
Steps(effect) ==
  CASE effect = "createChildNode" ->
         <<"findByParentId", "save", "findAll", "set">>
    [] effect = "createSiblingBelow" ->
         <<"findById", "findByParentId", "save", "save", "findAll", "set">>
    [] effect = "updateNodeContent" ->
         <<"findById", "save", "findAll", "set">>
    [] effect = "deleteNode" ->
         <<"findById", "findById", "findById", "findByParentId",
           "findById", "findByParentId", "delete", "findAll", "set">>
    [] OTHER -> <<>>

\* what a key event's command does: a store call, a buffered prefix key
\* (which starts the buffer timer), or neither
Effects ==
  {"createChildNode", "createSiblingBelow", "updateNodeContent", "deleteNode",
   "buffered", "none"}

\* (mutant: save settles from a task, as a repository doing real I/O would)
SettlesInMutant(step) == IF step = "save" THEN "task" ELSE "microtask"
\* The repository functions are async functions without an await: the
\* promise they return is already settled, so the caller resumes from the
\* microtask queue.
SettlesIn(step) == "microtask"

\* the queues after the store call of event ev has made the given step
Resumed(ev, step, rest, js, ts) ==
  IF rest = <<>> THEN [jobs |-> js, tasks |-> ts]
  ELSE IF SettlesIn(step) = "microtask"
  THEN [jobs |-> Append(js, ev), tasks |-> ts]
  ELSE [jobs |-> js, tasks |-> Append(ts, [kind |-> "resume", ev |-> ev])]

NoTimer(ts) == SelectSeq(ts, LAMBDA t : t.kind # "timer")

\* window 'keydown' listener: a key event is a task of its own, and a task
\* starts only when the microtask queue is empty
KeyEvent ==
  /\ keyEvents < MaxKeyEvents
  /\ jobs = <<>>
  /\ \E effect \in Effects :
       LET ev == keyEvents + 1
           steps == Steps(effect)
       IN /\ keyEvents' = ev
          /\ effects' = Append(effects, effect)
          /\ IF steps # <<>>
             THEN LET q == Resumed(ev, Head(steps), Tail(steps), jobs, tasks)
                  IN /\ inFlight' = inFlight \cup {[ev |-> ev, steps |-> Tail(steps)]}
                     /\ lastAccess' = [ev |-> ev, step |-> Head(steps)]
                     /\ jobs' = q.jobs
                     /\ tasks' = q.tasks
             ELSE /\ tasks' = IF effect = "buffered"
                              THEN Append(NoTimer(tasks), [kind |-> "timer", ev |-> ev])
                              ELSE NoTimer(tasks)
                  /\ UNCHANGED <<inFlight, jobs, lastAccess>>

\* the continuation of the store call of event ev makes its next step
Continue(ev, js, ts) ==
  \E c \in inFlight :
    /\ c.ev = ev
    /\ LET q == Resumed(ev, Head(c.steps), Tail(c.steps), js, ts)
       IN /\ lastAccess' = [ev |-> ev, step |-> Head(c.steps)]
          /\ inFlight' = IF Tail(c.steps) = <<>> THEN inFlight \ {c}
                         ELSE (inFlight \ {c}) \cup
                                {[ev |-> ev, steps |-> Tail(c.steps)]}
          /\ jobs' = q.jobs
          /\ tasks' = q.tasks

\* the microtask at the head of the queue runs
RunJob ==
  /\ jobs # <<>>
  /\ Continue(Head(jobs), Tail(jobs), tasks)
  /\ UNCHANGED <<keyEvents, effects>>

\* the task at the head of the queue runs: the buffer timer's resetBuffer,
\* or a continuation that settled from a task
RunTask ==
  /\ jobs = <<>>
  /\ tasks # <<>>
  /\ IF Head(tasks).kind = "timer"
     THEN /\ tasks' = Tail(tasks)
          /\ UNCHANGED <<inFlight, jobs, lastAccess>>
     ELSE Continue(Head(tasks).ev, jobs, Tail(tasks))
  /\ UNCHANGED <<keyEvents, effects>>

NextLoop ==
  \/ KeyEvent /\ UNCHANGED notLoopVars
  \/ RunJob /\ UNCHANGED notLoopVars
  \/ RunTask /\ UNCHANGED notLoopVars

LoopInit ==
  InitEngineIdle /\ InitServiceIdle /\ InitStoreIdle /\ InitModeManager
  /\ InitLoopIdle /\ InitUI /\ InitStorageIdle /\ InitLayoutIdle
  /\ InitPaletteClosed

SpecLoop == LoopInit /\ [][NextLoop]_vars

\* C18: at most one store call is in flight; a key event is dispatched
\* only when every store call started by an earlier key event has made all
\* its steps; and every step made belongs to the latest store call started.
C18_OneMutationInFlight ==
  [][/\ Cardinality(inFlight') <= 1
     /\ keyEvents' # keyEvents => inFlight = {}
     /\ lastAccess' # lastAccess =>
          \A e \in 1..keyEvents' :
            (e > lastAccess'.ev) => Steps(effects'[e]) = <<>>
  ]_vars

\* C18 witness: the store call of the second key event is between its
\* write and its refresh, after the deleteNode of the first has returned
C18_Witness ==
  /\ keyEvents = 2
  /\ effects = <<"deleteNode", "createChildNode">>
  /\ inFlight = {[ev |-> 2, steps |-> <<"findAll", "set">>]}
  /\ lastAccess = [ev |-> 2, step |-> "save"]


(***************************************************************************)
(* The application: the window's keydown listener builds the command       *)
(* context from the two stores, hands the event to the key handler, and    *)
(* the command the handler executes calls back into the stores.            *)
(***************************************************************************)
AppKeys ==
  { <<"a">>, <<"o">>, <<"O">>, <<"d">>, <<"g">>, <<"i">>, <<"h">>, <<"l">>,
    Escape }

AppTargets == {"body", "textarea"}

\* (mutant: isSelectedNodeRoot keeps its initial value)
BuildContextMutant ==
  [mode |-> uiMode,
   selectedNodeId |-> selectedNodeId,
   hasNodes |-> storeNodes # <<>>,
   isSelectedNodeRoot |-> FALSE]

\* the context handleKeyDown of useKeyboardShortcuts captures
BuildContext ==
  [mode |-> uiMode,
   selectedNodeId |-> selectedNodeId,
   hasNodes |-> storeNodes # <<>>,
   isSelectedNodeRoot |-> selectedNodeId # NULL /\ IsRootNode(repo, selectedNodeId)]

NoStoreCall == UNCHANGED <<serviceVars, storeVars>>

\* (mutant: the node is created and the mode is left as it is)
EditCreateChildMutant(ctx) ==
  IF ~ctx.hasNodes THEN CreateRootNode /\ UNCHANGED uiMode
  ELSE IF ctx.selectedNodeId # NULL
  THEN CreateChildNodeOf(ctx.selectedNodeId) /\ UNCHANGED uiMode
  ELSE NoStoreCall /\ UNCHANGED uiMode

\* edit.createChild with the createRootNode and createChildNode of the
\* command context, which enter insert mode after the store call
EditCreateChild(ctx) ==
  IF ~ctx.hasNodes THEN CreateRootNode /\ uiMode' = "insert"
  ELSE IF ctx.selectedNodeId # NULL
  THEN CreateChildNodeOf(ctx.selectedNodeId) /\ uiMode' = "insert"
  ELSE NoStoreCall /\ UNCHANGED uiMode

\* execute of the command id, for the commands AppKeys can reach
Execute(id, ctx) ==
  CASE id = "edit.createChild" -> EditCreateChild(ctx)
    [] id = "edit.createSiblingBelow" ->
         IF ctx.selectedNodeId # NULL
         THEN StoreCreateSiblingBelowOf(ctx.selectedNodeId) /\ uiMode' = "insert"
         ELSE NoStoreCall /\ UNCHANGED uiMode
    [] id = "edit.createSiblingAbove" ->
         IF ctx.selectedNodeId # NULL
         THEN StoreCreateSiblingAboveOf(ctx.selectedNodeId) /\ uiMode' = "insert"
         ELSE NoStoreCall /\ UNCHANGED uiMode
    [] id = "edit.delete" ->
         /\ IF ctx.selectedNodeId # NULL
            THEN StoreDeleteNodeOf(ctx.selectedNodeId) ELSE NoStoreCall
         /\ UNCHANGED uiMode
    [] id = "edit.deleteWithChildren" ->
         /\ IF ctx.selectedNodeId # NULL
            THEN StoreDeleteNodeWithChildrenOf(ctx.selectedNodeId)
            ELSE NoStoreCall
         /\ UNCHANGED uiMode
    [] id = "edit.enterInsert" -> uiMode' = "insert" /\ NoStoreCall
    [] id = "mode.exitInsert" -> uiMode' = "normal" /\ NoStoreCall
    [] id = "nav.parent" -> NavigateToParent /\ UNCHANGED uiMode
    [] id = "nav.child" -> NavigateToFirstChild /\ UNCHANGED uiMode
    [] OTHER -> NoStoreCall /\ UNCHANGED uiMode

\* one keydown event on the window
AppKeyDown ==
  \E k \in AppKeys, t \in AppTargets :
    LET ev == [key |-> k, metaKey |-> FALSE, ctrlKey |-> FALSE, target |-> t]
        ctx == BuildContext
        r == HandleKeyDown(commands, isMac, Closure, ev, ctx)
    IN /\ keyBuffer' = r.keyBuffer
       /\ timeoutId' = r.timeoutId
       /\ timers' = r.timers
       /\ handled' = r.handled
       /\ executed' = r.executed
       /\ calls' = r.calls
       /\ raised' = Raises(commands, isMac, Closure, ev, ctx)
       /\ lastEvent' = ev
       /\ lastOp' = "keydown"
       /\ context' = ctx
       /\ focus' = t
       /\ IF r.executed # <<>> THEN Execute(r.executed[1], ctx)
          ELSE NoStoreCall /\ UNCHANGED uiMode
       /\ UNCHANGED <<commands, isMac, metaHeld, ctrlHeld, modeVars, loopVars,
                      lsVars, layoutVars, paletteVars>>

\* App after its mount effect: initialize(service) has set the service and
\* the snapshot of an empty repository
InitStoreReady ==
  /\ storeNodes = <<>>
  /\ selectedNodeId = NULL
  /\ serviceSet = TRUE

NextApp ==
  \/ AppKeyDown
  \/ Timeout /\ UNCHANGED notEngineVars

AppInit ==
  InitEngineIdle /\ InitServiceIdle /\ InitStoreReady /\ InitModeManager
  /\ InitLoopIdle /\ InitUI /\ InitStorageIdle /\ InitLayoutIdle
  /\ InitPaletteClosed

SpecApp == AppInit /\ [][NextApp]_vars

\* the event is the key "a" resolved on its own: normal mode, nothing
\* buffered, the focus outside every text field
PressedA ==
  /\ lastOp' = "keydown"
  /\ lastEvent'.key = <<"a">>
  /\ lastEvent'.target = "body"
  /\ uiMode = "normal"
  /\ keyBuffer = <<>>

\* C19: "a" in normal mode stores exactly one new node and changes no
\* other: a root when no node is shown, otherwise the last child of the
\* selected node; the snapshot is refreshed, the new node is selected and
\* the mode is insert.  Escape in insert mode sets the mode to normal.
C19_CreateChildThenEscape ==
  [][/\ PressedA =>
          /\ Len(repo') = Len(repo) + 1
          /\ SubSeq(repo', 1, Len(repo)) = repo
          /\ LET new == repo'[Len(repo')]
             IN /\ new.id \notin {n.id : n \in NodesOf(repo)}
                /\ IF storeNodes = <<>>
                   THEN repo = <<>> /\ new.parentId = NULL
                   ELSE /\ selectedNodeId # NULL
                        /\ new.parentId = selectedNodeId
                        /\ \A n \in NodesOf(repo) :
                             n.parentId = selectedNodeId => n.order < new.order
                /\ selectedNodeId' = new.id
          /\ storeNodes' = repo'
          /\ uiMode' = "insert"
     /\ (lastOp' = "keydown" /\ lastEvent'.key = Escape /\ uiMode = "insert")
          => uiMode' = "normal" /\ repo' = repo
  ]_vars

\* C19 witness: "a" on the selected root has added its first child, which
\* is selected, in insert mode
C19_Witness ==
  /\ lastOp = "keydown"
  /\ lastEvent.key = <<"a">>
  /\ executed = <<"edit.createChild">>
  /\ Len(repo) = 2
  /\ repo[1].parentId = NULL
  /\ repo[2].parentId = repo[1].id
  /\ selectedNodeId = repo[2].id
  /\ storeNodes = repo
  /\ uiMode = "insert"


CascadeOnRoot ==
  /\ lastOp' = "keydown"
  /\ executed' = <<"edit.deleteWithChildren">>
  /\ \E n \in NodesOf(repo) : n.id = selectedNodeId /\ n.parentId = NULL

\* C39: "gd" with the root selected removes every node, from the repository
\* and from the nodes shown, and leaves the selection null and the mode
\* normal; and "a" pressed when no node is stored creates exactly one node,
\* a root, which is shown and selected
C39_CascadeOnRootThenNewRoot ==
  [][/\ CascadeOnRoot =>
          /\ repo' = <<>>
          /\ storeNodes' = <<>>
          /\ selectedNodeId' = NULL
          /\ uiMode' = "normal"
          /\ Idle'
     /\ (PressedA /\ repo = <<>> /\ storeNodes = <<>> /\ selectedNodeId = NULL) =>
          /\ Len(repo') = 1
          /\ repo'[1].parentId = NULL
          /\ storeNodes' = repo'
          /\ selectedNodeId' = repo'[1].id
  ]_vars

\* C39 witness: "a" has created the only node, a root, after an earlier
\* root and its child were removed: only "gd" on the root removes a root
C39_Witness ==
  /\ lastOp = "keydown"
  /\ lastEvent.key = <<"a">>
  /\ executed = <<"edit.createChild">>
  /\ Len(repo) = 1
  /\ repo[1].parentId = NULL
  /\ repo[1].id = 3
  /\ storeNodes = repo
  /\ selectedNodeId = 3


(***************************************************************************)
(* storage/repository, createLocalStorageRepository.  The item under      *)
(* STORAGE_KEY is a text; what matters of it is what JSON.parse makes of   *)
(* it: absent (getItem returns null), the empty text, the JSON of an       *)
(* array of nodes, the JSON of a value that is no array, or a text that    *)
(* is no JSON at all (a truncated or overwritten item).                    *)
(***************************************************************************)
MaxPersistIds == 3

PersistNodes ==
  {Node(i, c, IF i = 1 THEN NULL ELSE 1, IF i = 1 THEN 0 ELSE i - 2) :
     i \in 1..MaxPersistIds, c \in {"New Node", "Edited"}}

\* JSON.stringify(Array.from(nodes.values()))
Stringify(nodes) == [tag |-> "array", nodes |-> nodes]

\* JSON.parse(text): the value, or a SyntaxError
JsonParse(item) ==
  CASE item.tag = "array" -> [raised |-> FALSE, isArray |-> TRUE, value |-> item.nodes]
    [] item.tag = "value" -> [raised |-> FALSE, isArray |-> FALSE, value |-> <<>>]
    [] OTHER -> [raised |-> TRUE, isArray |-> FALSE, value |-> <<>>]

RECURSIVE SetAll(_, _)
\* parsed.forEach((node) => nodes.set(node.id, node))
SetAll(r, parsed) ==
  IF parsed = <<>> THEN r ELSE SetAll(Save(r, Head(parsed)), Tail(parsed))

\* loadFromStorage on the new, empty Map: a null or empty item is skipped;
\* any other is parsed, without a try, and its forEach is called
LoadFromStorage(item) ==
  IF item.tag \in {"absent", "empty"} THEN [raised |-> FALSE, nodes |-> <<>>]
  ELSE LET parsed == JsonParse(item)
       IN IF parsed.raised \/ ~parsed.isArray
          THEN [raised |-> TRUE, nodes |-> <<>>]
          ELSE [raised |-> FALSE, nodes |-> SetAll(<<>>, parsed.value)]

\* createLocalStorageRepository(): a page load
CreateLocalStorageRepository ==
  LET r == LoadFromStorage(storedItem)
  IN /\ lsNodes' = r.nodes
     /\ lsCall' = [op |-> "createLocalStorageRepository", raised |-> r.raised]
     /\ UNCHANGED storedItem

\* a repository was constructed and has not been lost to a failed page load
HasRepository ==
  lsCall.op # "init" /\ ~(lsCall.op = "createLocalStorageRepository" /\ lsCall.raised)

LsSave ==
  /\ HasRepository
  /\ \E node \in PersistNodes :
       /\ lsNodes' = Save(lsNodes, node)
       /\ storedItem' = Stringify(Save(lsNodes, node))
       /\ lsCall' = [op |-> "save", raised |-> FALSE]

LsDelete ==
  /\ HasRepository
  /\ \E id \in 1..MaxPersistIds :
       /\ lsNodes' = Delete(lsNodes, id)
       /\ storedItem' = Stringify(Delete(lsNodes, id))
       /\ lsCall' = [op |-> "delete", raised |-> FALSE]

LsClear ==
  /\ HasRepository
  /\ lsNodes' = <<>>
  /\ storedItem' = Stringify(<<>>)
  /\ lsCall' = [op |-> "clear", raised |-> FALSE]

\* the item is lost or damaged outside the program: removed, emptied,
\* overwritten with another JSON value, or truncated
Damage ==
  /\ \E tag \in {"absent", "empty", "value", "garbage"} :
       /\ storedItem.tag # tag
       /\ storedItem' = [tag |-> tag, nodes |-> <<>>]
  /\ lsCall' = [op |-> "damage", raised |-> FALSE]
  /\ UNCHANGED lsNodes

notLsVars == <<engineVars, serviceVars, storeVars, modeVars, loopVars, uiMode,
  layoutVars, paletteVars>>

NextStorage ==
  \/ CreateLocalStorageRepository /\ UNCHANGED notLsVars
  \/ LsSave /\ UNCHANGED notLsVars
  \/ LsDelete /\ UNCHANGED notLsVars
  \/ LsClear /\ UNCHANGED notLsVars
  \/ Damage /\ UNCHANGED notLsVars

StorageInit ==
  InitEngineIdle /\ InitServiceIdle /\ InitStoreIdle /\ InitModeManager
  /\ InitLoopIdle /\ InitUI /\ InitStorageIdle /\ InitLayoutIdle
  /\ InitPaletteClosed

SpecStorage == StorageInit /\ [][NextStorage]_vars

\* C23: constructing the persistent repository while the item is absent or
\* is no JSON succeeds with an empty node collection.
C23_CorruptBlobTolerated ==
  [][(/\ lsCall'.op = "createLocalStorageRepository"
      /\ storedItem.tag \in {"absent", "garbage"})
     => (~lsCall'.raised /\ lsNodes' = <<>>)
  ]_vars

\* C23 witness: the repository was constructed over an item that is no
\* JSON, and the construction raised
C23_Witness ==
  /\ lsCall = [op |-> "createLocalStorageRepository", raised |-> TRUE]
  /\ storedItem.tag = "garbage"

(***************************************************************************)
(* layout/hierarchicalLayout.  A node's content is kept as the lengths of  *)
(* its lines, content.split('\n').map(line => line.length): the layout     *)
(* reads nothing else of it.  Every height the code produces is even (40   *)
(* or 20 k + 16), so the halves it takes are whole numbers.                *)
(***************************************************************************)
MIN_NODE_WIDTH == 80
MAX_NODE_WIDTH == 250
NODE_PADDING_X == 24
NODE_PADDING_Y == 16
LINE_HEIGHT == 20
CHAR_WIDTH == 8
HORIZONTAL_SPACING == 60
VERTICAL_SPACING == 20

\* Math.max and Math.min of two numbers
MathMax(a, b) == IF a >= b THEN a ELSE b
MathMin(a, b) == IF a <= b THEN a ELSE b

\* Math.ceil(a / b) for a >= 0, b > 0
CeilDiv(a, b) == (a + b - 1) \div b

RECURSIVE SumTo(_, _)
SumTo(f, n) == IF n = 0 THEN 0 ELSE SumTo(f, n - 1) + f[n]

\* calculateNodeDimensions
CalculateNodeDimensions(content) ==
  LET lengths == {content[i] : i \in 1..Len(content)} \cup {1}
      maxLineLength == CHOOSE m \in lengths : \A l \in lengths : l <= m
      textWidth == maxLineLength * CHAR_WIDTH
      width == MathMin(MAX_NODE_WIDTH,
                       MathMax(MIN_NODE_WIDTH, textWidth + NODE_PADDING_X))
      charsPerLine == (width - NODE_PADDING_X) \div CHAR_WIDTH
      lineWraps == [i \in 1..Len(content) |->
                      MathMax(1, CeilDiv(content[i], charsPerLine))]
      wrappedLineCount == SumTo(lineWraps, Len(content))
      height == MathMax(40, wrappedLineCount * LINE_HEIGHT + NODE_PADDING_Y)
  IN [width |-> width, height |-> height]

\* buildTree: the children of a node, sorted by order; the tree itself is
\* walked through this operator instead of being copied into TreeNode records
TreeChildren(nodes, id) ==
  SortByOrder(SelectSeq(nodes, LAMBDA n : n.parentId = id))

\* buildTree(nodes, null): the tree starts from the first of the roots
TreeRoots(nodes) == SelectSeq(nodes, LAMBDA n : n.parentId = NULL)

\* (mutant: a node's own height is left out of its subtree's height)
SubtreeHeightMutant(nodeHeight, childrenHeight) == childrenHeight
\* calculateSubtreeHeight, its last line
SubtreeHeight(nodeHeight, childrenHeight) == MathMax(nodeHeight, childrenHeight)

\* calculateSubtreeHeight
RECURSIVE CalculateSubtreeHeight(_, _)
CalculateSubtreeHeight(nodes, node) ==
  LET children == TreeChildren(nodes, node.id)
      own == CalculateNodeDimensions(node.content).height
      each == [i \in 1..Len(children) |->
                 CalculateSubtreeHeight(nodes, children[i]) + VERTICAL_SPACING]
  IN IF children = <<>> THEN own
     ELSE SubtreeHeight(own, SumTo(each, Len(children)) - VERTICAL_SPACING)

RECURSIVE ConcatTo(_, _)
ConcatTo(f, n) == IF n = 0 THEN <<>> ELSE ConcatTo(f, n - 1) \o f[n]

\* layoutNode: the boxes set in nodeLayouts, in the order they are set
RECURSIVE LayoutNode(_, _, _, _)
LayoutNode(nodes, node, x, y) ==
  LET dim == CalculateNodeDimensions(node.content)
      box == [nodeId |-> node.id, x |-> x, y |-> y,
              width |-> dim.width, height |-> dim.height]
      children == TreeChildren(nodes, node.id)
      childrenHeights == [i \in 1..Len(children) |->
                            CalculateSubtreeHeight(nodes, children[i])]
      spaced == [i \in 1..Len(children) |->
                   childrenHeights[i] + VERTICAL_SPACING]
      totalChildrenHeight == SumTo(spaced, Len(children)) - VERTICAL_SPACING
      childY0 == y + dim.height \div 2 - totalChildrenHeight \div 2
      childX == x + dim.width + HORIZONTAL_SPACING
      childY(i) == childY0 + SumTo(spaced, i - 1)
      childNodeY(i) ==
        childY(i) + childrenHeights[i] \div 2
          - CalculateNodeDimensions(children[i].content).height \div 2
      below == [i \in 1..Len(children) |->
                  LayoutNode(nodes, children[i], childX, childNodeY(i))]
  IN IF children = <<>> THEN <<box>>
     ELSE <<box>> \o ConcatTo(below, Len(children))

\* calculateLayout: result.nodes
CalculateLayout(nodes) ==
  IF nodes = <<>> \/ TreeRoots(nodes) = <<>> THEN <<>>
  ELSE LayoutNode(nodes, TreeRoots(nodes)[1], 50, 50)

(***************************************************************************)
(* The canvas: it is handed the store's nodes and lays them out on every   *)
(* change, useMemo(() => calculateLayout(nodes), [nodes]).  The trees are  *)
(* grown a node at a time, under any parent, with any order value and any  *)
(* of the contents below; the first node is the root, as in the store.     *)
(***************************************************************************)
MaxLayoutNodes == 5
\* "abc"; one line of 100 characters; three lines, the middle one empty
Contents == {<<3>>, <<100>>, <<12, 0, 12>>}
Orders == {0, 1}

RenderNodes ==
  /\ Len(layoutNodes) < MaxLayoutNodes
  /\ \E content \in Contents, order \in Orders,
        parentId \in IF layoutNodes = <<>> THEN {NULL}
                     ELSE {layoutNodes[i].id : i \in 1..Len(layoutNodes)} :
       /\ layoutNodes' = Append(layoutNodes,
                                [id |-> Len(layoutNodes) + 1, content |-> content,
                                 parentId |-> parentId, order |-> order])
       /\ layout' = CalculateLayout(layoutNodes')

\* the nodes change to an empty list
RenderNone ==
  /\ layoutNodes # <<>>
  /\ layoutNodes' = <<>>
  /\ layout' = CalculateLayout(layoutNodes')

notLayoutVars == <<engineVars, serviceVars, storeVars, modeVars, loopVars,
  uiMode, lsVars,
  paletteVars>>

NextLayout ==
  \/ RenderNodes /\ UNCHANGED notLayoutVars
  \/ RenderNone /\ UNCHANGED notLayoutVars

LayoutInit ==
  InitEngineIdle /\ InitServiceIdle /\ InitStoreIdle /\ InitModeManager
  /\ InitLoopIdle /\ InitUI /\ InitStorageIdle /\ InitLayoutIdle
  /\ InitPaletteClosed

SpecLayout == LayoutInit /\ [][NextLayout]_vars

OverlapX(a, b) == a.x < b.x + b.width /\ a.x + a.width > b.x
OverlapY(a, b) == a.y < b.y + b.height /\ a.y + a.height > b.y

\* C27: no two node boxes returned by calculateLayout overlap in both the
\* x axis and the y axis, whatever the tree's shape, sibling order and
\* contents
C27_NoBoxesOverlap ==
  \A i \in 1..Len(layout) : \A j \in 1..Len(layout) :
    i < j => ~(OverlapX(layout[i], layout[j]) /\ OverlapY(layout[i], layout[j]))

\* C27 witness: five boxes; a box 96 high has a sibling in the same column
\* and a child of its own lower than it, and some box overlaps another in y
\* only
C27_Witness ==
  /\ Len(layout) = 5
  /\ \E i, j, k \in 1..5 :
       /\ layout[i].height = 96
       /\ layout[j].x = layout[i].x /\ j # i
       /\ layout[k].x > layout[i].x /\ layout[k].height < 96
       /\ \E n \in NodesOf(layoutNodes) :
            n.id = layout[k].nodeId /\ n.parentId = layout[i].nodeId
       /\ OverlapY(layout[i], layout[k])
       /\ OverlapX(layout[i], layout[j])

(***************************************************************************)
(* The service driven by the calls that make, place and remove siblings,   *)
(* with one identifier more than SpecService has: three children of a root, *)
(* one of them deleted, and a sibling created next to the others.          *)
(***************************************************************************)
MaxSiblingIds == 5

\* generateId has an identifier left to hand out
CanGenerateSibling(ret) == ret.value = nextId => nextId <= MaxSiblingIds

SiblingCreateNode ==
  \E parentId \in ExistingIds(repo) \cup {NULL} :
    LET ret == CreateNode(repo, nextId, "New Node", parentId)
    IN CanGenerateSibling(ret) /\ Returned("createNode", NULL, parentId, ret)

SiblingCreateAbove ==
  \E id \in 1..MaxSiblingIds :
    LET ret == CreateSiblingAbove(repo, nextId, id, "New Node")
    IN CanGenerateSibling(ret) /\ Returned("createSiblingAbove", id, NULL, ret)

SiblingCreateBelow ==
  \E id \in 1..MaxSiblingIds :
    LET ret == CreateSiblingBelow(repo, nextId, id, "New Node")
    IN CanGenerateSibling(ret) /\ Returned("createSiblingBelow", id, NULL, ret)

SiblingDeleteNode ==
  \E id \in 1..MaxSiblingIds :
    Returned("deleteNode", id, NULL, DeleteNode(repo, id))

NextSiblings ==
  \/ SiblingCreateNode /\ UNCHANGED notServiceVars
  \/ SiblingCreateAbove /\ UNCHANGED notServiceVars
  \/ SiblingCreateBelow /\ UNCHANGED notServiceVars
  \/ SiblingDeleteNode /\ UNCHANGED notServiceVars

SiblingsInit ==
  InitEngineIdle /\ InitServiceIdle /\ InitStoreIdle /\ InitModeManager
  /\ InitLoopIdle /\ InitUI /\ InitStorageIdle /\ InitLayoutIdle
  /\ InitPaletteClosed

SpecSiblings == SiblingsInit /\ [][NextSiblings]_vars

\* the order values of the children of a parent
OrdersUnder(r, parentId) == {n.order : n \in {m \in NodesOf(r) : m.parentId = parentId}}

\* the children of a parent have pairwise different, consecutive order values
Contiguous(r, parentId) ==
  LET kids == {m \in NodesOf(r) : m.parentId = parentId}
      orders == OrdersUnder(r, parentId)
  IN /\ Cardinality(orders) = Cardinality(kids)
     /\ \A a \in orders : \A b \in orders :
          \A k \in a..b : k \in orders

\* a createSiblingAbove or createSiblingBelow call has returned a new node
SiblingCreated(op, value) ==
  op \in {"createSiblingAbove", "createSiblingBelow"} /\ value # NULL

\* C32 as stated: after createSiblingAbove or createSiblingBelow, on any tree
\* the service's operations can reach, the children of the anchor's parent
\* have consecutive order values with no gaps.
C32_OrdersContiguous ==
  [][SiblingCreated(lastCall'.op, callResult'.value) =>
       \A n \in NodesOf(repo') :
         n.id = callResult'.value => Contiguous(repo', n.parentId)
  ]_vars

\* C32 amended: createSiblingAbove and createSiblingBelow keep the order
\* values of the anchor's siblings consecutive when they were consecutive
\* before the call, adding one value; a gap that a deletion left stays.
C32_OrdersStayContiguous ==
  [][SiblingCreated(lastCall'.op, callResult'.value) =>
       \A n \in NodesOf(repo') :
         n.id = callResult'.value =>
           /\ Cardinality(OrdersUnder(repo', n.parentId))
                = Cardinality(OrdersUnder(repo, n.parentId)) + 1
           /\ Contiguous(repo, n.parentId) => Contiguous(repo', n.parentId)
           /\ ~Contiguous(repo, n.parentId) => ~Contiguous(repo', n.parentId)
  ]_vars

\* C32 witness: the middle one of three children was deleted and a sibling
\* created below the first: the order values are 0, 1 and 3
C32_Witness ==
  /\ lastCall.op = "createSiblingBelow"
  /\ callResult.value # NULL
  /\ \E n \in NodesOf(repo) :
       /\ n.id = callResult.value
       /\ OrdersUnder(repo, n.parentId) = {0, 1, 3}
       /\ n.order = 1

(***************************************************************************)
(* The key handler under keys whose names are longer than a character      *)
(* (ArrowLeft, Shift, Escape) and the characters of those names typed one  *)
(* by one, with the default registry and the registry of the handler's     *)
(* test "should differentiate between dd and dG".                          *)
(***************************************************************************)
Shift == <<"S", "h", "i", "f", "t">>

DeleteCommands ==
  << [id |-> "delete", keybindings |-> <<(<<"d", "d">>)>>,
      modes |-> {"normal"}, guard |-> "none"],
     [id |-> "deleteChildren", keybindings |-> <<(<<"d", "G">>)>>,
      modes |-> {"normal"}, guard |-> "none"] >>

NamedKeys ==
  { <<"A">>, <<"r">>, <<"o">>, <<"w">>, <<"L">>, <<"e">>, <<"f">>, <<"t">>,
    <<"d">>, <<"G">>, <<"E">>, ArrowLeft, Shift, Escape }

InitKeys ==
  /\ commands \in {DefaultCommands, DeleteCommands}
  /\ isMac = FALSE
  /\ keyBuffer = <<>>
  /\ timeoutId = NULL
  /\ timers = {}
  /\ context \in Contexts
  /\ metaHeld = FALSE
  /\ ctrlHeld = FALSE
  /\ focus = "body"
  /\ lastOp = "init"
  /\ lastEvent = NoEvent
  /\ handled = FALSE
  /\ executed = <<>>
  /\ calls = <<>>
  /\ raised = FALSE

NamedKeyDown == \E k \in NamedKeys : KeyDownOf(k)

NextKeys ==
  \/ NamedKeyDown /\ UNCHANGED notEngineVars
  \/ Timeout /\ UNCHANGED notEngineVars
  \/ SetContext /\ UNCHANGED notEngineVars
  \/ SetFocus /\ UNCHANGED notEngineVars

KeysInit ==
  InitKeys /\ InitServiceIdle /\ InitStoreIdle /\ InitModeManager
  /\ InitLoopIdle /\ InitUI /\ InitStorageIdle /\ InitLayoutIdle
  /\ InitPaletteClosed

SpecKeys == KeysInit /\ [][NextKeys]_vars

\* C34: the buffer is the key names put end to end with nothing between
\* them, so the characters of "ArrowLeft" typed one by one with no timeout
\* in between match the binding "ArrowLeft": each key before the last is
\* kept in the buffer and reported handled, and the last runs the command
\* the ArrowLeft key itself runs.
C34_NamedKeyTypedOut ==
  [][(/\ lastOp' = "keydown"
      /\ commands = DefaultCommands
      /\ context.mode = "normal"
      /\ lastEvent'.target = "body"
      /\ Len(lastEvent'.key) = 1)
     => LET buf == keyBuffer \o lastEvent'.key
        IN /\ IsProperPrefix(buf, ArrowLeft) =>
                /\ handled'
                /\ keyBuffer' = buf
                /\ executed' = <<>>
           /\ (buf = ArrowLeft /\ keyBuffer # <<>>
               /\ context.selectedNodeId # NULL) =>
                /\ handled'
                /\ executed' = <<"nav.parent">>
                /\ executed' =
                     HandleKeyDown(commands, isMac,
                                   [keyBuffer |-> <<>>, timeoutId |-> NULL,
                                    timers |-> {}],
                                   [lastEvent' EXCEPT !.key = ArrowLeft],
                                   context).executed
                /\ Idle'
  ]_vars

\* C34 witness: the key "t" after "ArrowLef" has run nav.parent
C34_Witness ==
  /\ lastOp = "keydown"
  /\ commands = DefaultCommands
  /\ lastEvent.key = <<"t">>
  /\ executed = <<"nav.parent">>
  /\ handled
  /\ Idle

\* what the appended buffer decides: the command it completes runs, or it is
\* kept as a prefix, or it is dropped and the event reported not handled
DecidedByAppendedBuffer(buf, ctx) ==
  IF ExecutableExact(buf, ctx) # {}
  THEN /\ handled'
       /\ Len(executed') = 1
       /\ \E i \in ExecutableExact(buf, ctx) : executed'[1] = commands[i].id
       /\ Idle'
  ELSE IF StrictPrefixOfSome(buf, ctx)
  THEN handled' /\ executed' = <<>> /\ keyBuffer' = buf
  ELSE ~handled' /\ executed' = <<>> /\ Idle'

\* with "dG" bound, Shift after "d" drops the buffer and is not handled, and
\* the "G" that follows finds an empty buffer and runs nothing
ShiftBreaksSequence ==
  (commands = DeleteCommands /\ context.mode = "normal") =>
    /\ (keyBuffer = <<"d">> /\ lastEvent'.key = Shift) =>
         ~handled' /\ executed' = <<>> /\ Idle'
    /\ (keyBuffer = <<>> /\ lastEvent'.key = <<"G">>) =>
         ~handled' /\ executed' = <<>> /\ Idle'

\* C35 as stated: every key event that is neither focus-suppressed nor a
\* chord appends its key name to the buffer, the names of modifier keys
\* included; with "dG" bound, d, Shift, G runs nothing.
C35_EveryKeyAppended ==
  [][(/\ lastOp' = "keydown"
      /\ lastEvent'.target \notin {"input", "textarea"}
      /\ ChordCall(lastEvent', context, isMac) = "none")
     => /\ DecidedByAppendedBuffer(keyBuffer \o lastEvent'.key, context)
        /\ ShiftBreaksSequence
  ]_vars

\* C35 amended: every key event that is neither focus-suppressed, nor a
\* chord, nor an Escape that runs the Escape command of the mode appends its
\* key name to the buffer, the names of modifier keys included; an Escape
\* that runs its command does so whatever the buffer holds and drops it.
C35_KeyAppendedUnlessEscapeRuns ==
  [][(/\ lastOp' = "keydown"
      /\ lastEvent'.target \notin {"input", "textarea"}
      /\ ChordCall(lastEvent', context, isMac) = "none")
     => /\ ShiftBreaksSequence
        /\ IF EscapeRuns(lastEvent', context)
           THEN handled' /\ Len(executed') = 1 /\ Idle'
           ELSE DecidedByAppendedBuffer(keyBuffer \o lastEvent'.key, context)
  ]_vars

\* C35 witness: Shift has just been dropped with the buffer "d" in the
\* registry that binds "dG"
C35_Witness ==
  /\ lastOp = "keydown"
  /\ commands = DeleteCommands
  /\ context.mode = "normal"
  /\ lastEvent.key = Shift
  /\ lastEvent.target = "body"
  /\ ~handled
  /\ executed = <<>>
  /\ Idle

(***************************************************************************)
(* ui/CommandPalette on top of the two stores: the palette lists the       *)
(* commands of the registry that the context of its last render allows,    *)
(* narrowed by the text typed into its input, and runs the one selected.   *)
(* Every command of the registry can be run from it, so the tree, the      *)
(* selection and the mode are here the work of the palette alone.          *)
(***************************************************************************)
\* the texts typed into the input of the palette
Queries == {"", "delete", "mode", "xyz"}

\* cmd.name or cmd.description, in lower case, contains the query in lower
\* case: read off the names and descriptions of createCommands
MatchesQuery(cmd, q) ==
  CASE q = "" -> TRUE
    [] q = "delete" -> cmd.id \in {"edit.delete", "edit.deleteWithChildren"}
    [] q = "mode" ->
         cmd.id \in {"edit.createChild", "edit.createSiblingBelow",
                     "edit.createSiblingAbove", "edit.enterInsert",
                     "edit.changeNode", "mode.exitInsert"}
    [] OTHER -> FALSE

\* the ctx of the CommandPalette component
PaletteCtx ==
  [mode |-> uiMode,
   selectedNodeId |-> selectedNodeId,
   hasNodes |-> storeNodes # <<>>,
   isSelectedNodeRoot |-> selectedNodeId # NULL /\ IsRootNode(repo, selectedNodeId)]

\* (mutant: canExecute is not asked)
AvailableCommandsMutant(cmds, ctx, q) ==
  SelectSeq(SelectSeq(cmds, LAMBDA cmd : ctx.mode \in cmd.modes),
            LAMBDA cmd : q = "" \/ MatchesQuery(cmd, q))
\* availableCommands: the three filters over allCommands
AvailableCommands(cmds, ctx, q) ==
  SelectSeq(SelectSeq(SelectSeq(cmds, LAMBDA cmd : ctx.mode \in cmd.modes),
                      LAMBDA cmd : CanExecute(cmd, ctx)),
            LAMBDA cmd : q = "" \/ MatchesQuery(cmd, q))

\* Math.min(selectedIndex, Math.max(0, availableCommands.length - 1))
ClampedIndex ==
  MathMin(selectedIndex,
          MathMax(0, Len(AvailableCommands(commands, PaletteCtx, query)) - 1))

\* execute of the command id with the ctx of the palette, for every
\* command of the registry
PaletteExecute(id, ctx) ==
  CASE id = "nav.nextSibling" -> NavigateToNextSibling /\ UNCHANGED uiMode
    [] id = "nav.prevSibling" -> NavigateToPreviousSibling /\ UNCHANGED uiMode
    [] id = "edit.changeNode" ->
         IF ctx.selectedNodeId # NULL
         THEN LET ret == UpdateContent(repo, ctx.selectedNodeId, "")
              IN /\ StoreReturned("updateNodeContent", ctx.selectedNodeId,
                                  ret.repo, FindAll(ret.repo), selectedNodeId,
                                  ret.ok, NULL, ret.error)
                 /\ uiMode' = "insert"
         ELSE NoStoreCall /\ UNCHANGED uiMode
    [] OTHER -> Execute(id, ctx)

\* what a step of the palette leaves of the key handler's variables
PaletteStep(op) ==
  /\ lastOp' = op
  /\ NoCall
  /\ UNCHANGED <<commands, isMac, keyBuffer, timeoutId, timers, context,
                 metaHeld, ctrlHeld, focus, modeVars, loopVars, lsVars,
                 layoutVars>>

\* uiStore.openCommandPalette(), from the ":" command or the Ctrl/Meta+k chord
OpenCommandPalette ==
  /\ ~isCommandPaletteOpen
  /\ isCommandPaletteOpen' = TRUE
  /\ PaletteStep("openCommandPalette")
  /\ paletteSteps' = <<>>
  /\ UNCHANGED <<query, selectedIndex, serviceVars, storeVars, uiMode>>

\* handleQueryChange(newQuery)
HandleQueryChange ==
  /\ isCommandPaletteOpen
  /\ \E newQuery \in Queries : newQuery # query /\ query' = newQuery
  /\ selectedIndex' = 0
  /\ PaletteStep("handleQueryChange")
  /\ paletteSteps' = <<>>
  /\ UNCHANGED <<isCommandPaletteOpen, serviceVars, storeVars, uiMode>>

\* handleKeyDown of the input: ArrowDown and ArrowUp
PaletteArrow ==
  /\ isCommandPaletteOpen
  /\ LET n == Len(AvailableCommands(commands, PaletteCtx, query))
     IN \/ selectedIndex' = MathMin(selectedIndex + 1, n - 1)
        \/ selectedIndex' = MathMax(selectedIndex - 1, 0)
  /\ selectedIndex' # selectedIndex
  /\ PaletteStep("paletteArrow")
  /\ paletteSteps' = <<>>
  /\ UNCHANGED <<isCommandPaletteOpen, query, serviceVars, storeVars, uiMode>>

\* handleClose, as a step of its own for the Escape key of the input
HandleClose ==
  /\ isCommandPaletteOpen
  /\ query' = ""
  /\ selectedIndex' = 0
  /\ isCommandPaletteOpen' = FALSE
  /\ PaletteStep("handleClose")
  /\ paletteSteps' = <<>>
  /\ UNCHANGED <<serviceVars, storeVars, uiMode>>

\* handleSelect(index), index counted from 0: cmd.execute(ctx), then
\* handleClose(); nothing when the list has no item at the index
HandleSelect(op, index) ==
  LET ctx == PaletteCtx
      available == AvailableCommands(commands, ctx, query)
  IN /\ isCommandPaletteOpen
     /\ PaletteStep(op)
     /\ IF index + 1 \in 1..Len(available)
        THEN LET cmd == available[index + 1]
             IN /\ PaletteExecute(cmd.id, ctx)
                /\ paletteSteps' = <<cmd.id, "handleClose">>
                /\ query' = ""
                /\ selectedIndex' = 0
                /\ isCommandPaletteOpen' = FALSE
        ELSE /\ paletteSteps' = <<>>
             /\ UNCHANGED <<isCommandPaletteOpen, query, selectedIndex,
                            serviceVars, storeVars, uiMode>>

\* handleKeyDown of the input: Enter
PaletteEnter == HandleSelect("paletteEnter", ClampedIndex)

\* a click on an item of the PaletteList
PaletteClick ==
  \E i \in 0..(Len(AvailableCommands(commands, PaletteCtx, query)) - 1) :
    HandleSelect("paletteClick", i)

NextPalette ==
  \/ OpenCommandPalette
  \/ HandleQueryChange
  \/ PaletteArrow
  \/ HandleClose
  \/ PaletteEnter
  \/ PaletteClick

PaletteInit ==
  InitEngineIdle /\ InitServiceIdle /\ InitStoreReady /\ InitModeManager
  /\ InitLoopIdle /\ InitUI /\ InitStorageIdle /\ InitLayoutIdle
  /\ InitPaletteClosed

SpecPalette == PaletteInit /\ [][NextPalette]_vars

\* the rule the key engine applies to an exact match: the mode of the
\* context is one of the command's modes and its precondition passes
Eligible(cmd, ctx) ==
  \E b \in Bindings(cmd) :
    \E i \in ExecutableExact(b, ctx) : commands[i] = cmd

\* C40: every command the open palette lists has the current mode among
\* its modes and a precondition that passes on the current context, which
\* is the rule the key engine applies to an exact match; a selection that
\* finds a command executes that one listed command, once, and then closes
\* the palette and clears its query and index; a selection that finds none
\* executes nothing and leaves the palette as it is
C40_PaletteRunsEligibleOnce ==
  [][/\ isCommandPaletteOpen =>
          LET available == AvailableCommands(commands, PaletteCtx, query)
          IN \A i \in 1..Len(available) :
               /\ PaletteCtx.mode \in available[i].modes
               /\ PreconditionPasses(available[i], PaletteCtx)
               /\ Eligible(available[i], PaletteCtx)
     /\ lastOp' \in {"paletteEnter", "paletteClick"} =>
          IF paletteSteps' = <<>>
          THEN UNCHANGED <<paletteVars, serviceVars, storeVars, uiMode>>
          ELSE /\ isCommandPaletteOpen
               /\ Len(paletteSteps') = 2
               /\ paletteSteps'[2] = "handleClose"
               /\ \E i \in 1..Len(commands) :
                    /\ commands[i].id = paletteSteps'[1]
                    /\ PaletteCtx.mode \in commands[i].modes
                    /\ PreconditionPasses(commands[i], PaletteCtx)
               /\ ~isCommandPaletteOpen'
               /\ query' = ""
               /\ selectedIndex' = 0
               /\ paletteSteps'[1] = "edit.createChild" =>
                    Len(repo') = Len(repo) + 1 /\ uiMode' = "insert"
               /\ paletteSteps'[1] = "edit.enterInsert" =>
                    repo' = repo /\ uiMode' = "insert"
               /\ paletteSteps'[1] = "mode.exitInsert" =>
                    repo' = repo /\ uiMode' = "normal"
  ]_vars

\* C40 witness: Enter in the palette ran "Create Child Node" on the selected
\* root: one child more, insert mode, the palette closed
C40_Witness ==
  /\ lastOp = "paletteEnter"
  /\ paletteSteps = <<"edit.createChild", "handleClose">>
  /\ ~isCommandPaletteOpen
  /\ Len(repo) = 2
  /\ repo[2].parentId = repo[1].id
  /\ selectedNodeId = repo[2].id
  /\ uiMode = "insert"

====
